---- MODULE Spec2Model ----
(***************************************************************************)
(* Model of the resource schema and data engine of rest-api-builder:       *)
(* backend/src/services/resourceService.ts (ResourceService and            *)
(* DynamicDataService), the catalog tables of the Prisma migration and the *)
(* request schema of the validation middleware.                            *)
(*                                                                         *)
(* Two stores are modelled.  `catalog` is the committed content of the     *)
(* resources/fields tables, written only through Prisma transactions       *)
(* (txCat is a transaction's uncommitted view, discarded on rollback).     *)
(* `tables` is the physical schema and its rows, written through the       *)
(* separate pg pool in autocommit mode: a statement that succeeded stays   *)
(* applied whatever happens to the Prisma transaction around it.           *)
(***************************************************************************)
EXTENDS Integers, Sequences, FiniteSets, TLC

VARIABLES catalog, tables, pc, op, existing, txCat, todo, ret, calls, before,
          held

vars == <<catalog, tables, pc, op, existing, txCat, todo, ret, calls, before,
          held>>

(***************************************************************************)
(* Bounds and input domains                                                *)
(***************************************************************************)
MaxRows == 1

Procs == {1, 2}

Names == {"Book"}

FieldNames == {"x", "y"}

SystemColumns == {"id", "created_at", "updated_at"}

SQL_TYPE_MAPPING(t) ==
    CASE t = "STRING"   -> "VARCHAR(255)"
      [] t = "INTEGER"  -> "INTEGER"
      [] t = "FLOAT"    -> "DECIMAL(10,2)"
      [] t = "BOOLEAN"  -> "BOOLEAN"
      [] t = "DATE"     -> "DATE"
      [] t = "DATETIME" -> "TIMESTAMP"
      [] t = "TEXT"     -> "TEXT"
      [] t = "JSON"     -> "JSONB"

(***************************************************************************)
(* Values and records                                                      *)
(***************************************************************************)
Undefined == [t |-> "undefined", v |-> 0]

NullV == [t |-> "null", v |-> 0]

Num(n) == [t |-> "number", v |-> n]

\* a field of a declaration as the request schema delivers it (isRequired
\* and isUnique are defaulted to false there)
\* FieldValidation: an absent rule is Undefined; a pattern is a literal
\* text between the optional anchors ^ and $, and the empty pattern stands
\* for an absent one (rules.pattern is tested for truthiness)
NoPattern == [start |-> FALSE, body |-> <<>>, end |-> FALSE]

NoRules == [min |-> Undefined, max |-> Undefined, pattern |-> NoPattern]

Field(n, ty, req, uniq) ==
    [name |-> n, type |-> ty, isRequired |-> req, isUnique |-> uniq,
     defaultValue |-> Undefined, validation |-> NoRules]

Plain(n) == Field(n, "STRING", FALSE, FALSE)

\* the plain fields, and the fields that differ from plain x in one attribute
FieldDefs ==
    {Plain(n) : n \in FieldNames}
        \cup {Field("x", "INTEGER", FALSE, FALSE), Field("x", "STRING", TRUE, FALSE),
              Field("x", "STRING", FALSE, TRUE)}

\* plain x with a default value and a pattern rule
Described ==
    [Plain("x") EXCEPT !.defaultValue = [t |-> "string", v |-> 1],
                       !.validation = [NoRules EXCEPT !.pattern =
                                          [NoPattern EXCEPT !.body = <<"a">>]]]

\* the field lists the model submits: the empty list, every single field,
\* every pair of plain fields (a repeated name included), a list that
\* drops x, keeps y and adds z when it replaces <<x, y>>, a field whose
\* name passes the request schema and is the name of a system column, and
\* a repeated integer field
Decls ==
    {<<>>} \cup {<<f>> : f \in FieldDefs}
           \cup {<<Plain(a), Plain(b)>> : a, b \in FieldNames}
           \cup {<<Plain("y"), Plain("z")>>, <<Plain("id")>>,
                 <<Field("x", "INTEGER", FALSE, FALSE),
                   Field("x", "INTEGER", FALSE, FALSE)>>}

\* an integer field z with the default value k
Defaulted(k) ==
    [Field("z", "INTEGER", FALSE, FALSE) EXCEPT !.defaultValue = Num(k)]

\* the field lists submitted to a resource declared with plain x and y:
\* the same fields with a default value and a rule on x, in the other
\* order, both, y dropped, x with another type or made unique, and a
\* field z added with the default value 7 and with the default value 0
MetaDecls ==
    {<<Described, Plain("y")>>, <<Plain("y"), Plain("x")>>,
     <<Plain("y"), Described>>, <<Plain("x")>>,
     <<Field("x", "INTEGER", FALSE, FALSE), Plain("y")>>,
     <<Plain("x"), Field("y", "STRING", FALSE, TRUE)>>,
     <<Plain("x"), Plain("y"), Defaulted(7)>>,
     <<Plain("x"), Plain("y"), Defaulted(0)>>}

\* the field lists submitted when two requests run concurrently
ConcDecls ==
    {<<Plain("x"), Plain("y")>>, <<Plain("x"), Plain("z")>>, <<Plain("y")>>}

Range(s) == {s[i] : i \in DOMAIN s}

NamesOf(fields) == {f.name : f \in Range(fields)}

toLowerCase(s) ==
    CASE s = "Book" -> "book"
      [] s = "book" -> "book"
      [] OTHER      -> s

generateTableName(resourceName) == "dyn_" \o toLowerCase(resourceName)

TableNames == {generateTableName(n) : n \in Names}

NoEntry == [id |-> 0, tableName |-> "", fields |-> {}]

NoExisting == [id |-> 0, tableName |-> "", fields |-> <<>>]

NoTable ==
    [exists |-> FALSE, cols |-> {}, idx |-> {}, rows |-> {}, serial |-> 0,
     trigger |-> FALSE]

NoOp == [kind |-> "none", name |-> "", fields |-> <<>>, data |-> <<>>, id |-> 0]

DeclOp(kind, name, fields) ==
    [kind |-> kind, name |-> name, fields |-> fields, data |-> <<>>, id |-> 0]

DataOp(kind, name, data, id) ==
    [kind |-> kind, name |-> name, fields |-> <<>>, data |-> data, id |-> id]

\* ids are compared for equality only: a new id is any id that no row and
\* no snapshot still refers to
FreshId(used) ==
    CHOOSE i \in 1..(Cardinality(used) + 1) :
        i \notin used /\ \A j \in 1..(i - 1) : j \in used

UsedResourceIds ==
    {catalog[n].id : n \in Names} \cup {txCat[p].id : p \in Procs}
        \cup {existing[p].id : p \in Procs}

UsedFieldIds ==
    UNION {{f.id : f \in catalog[n].fields} : n \in Names}
        \cup UNION {{f.id : f \in txCat[p].fields} : p \in Procs}
        \cup UNION {{f.id : f \in Range(existing[p].fields)} : p \in Procs}

\* include: { fields: { orderBy: { order: "asc" } } }
\* rows of equal order come back in an order the store picks
OrderedFields(S) ==
    {s \in [1..Cardinality(S) -> S] :
        /\ \A i, j \in DOMAIN s : i # j => s[i] # s[j]
        /\ \A i, j \in DOMAIN s : i < j => s[i].order <= s[j].order}

\* the field row a declaration's field is stored as
FieldRow(f, id, order) ==
    [id |-> id, name |-> f.name, type |-> f.type,
     isRequired |-> f.isRequired, isUnique |-> f.isUnique,
     defaultValue |-> IF f.defaultValue.t \in {"undefined", "null"}
                         \/ f.defaultValue.v = 0
                      THEN NullV ELSE f.defaultValue,
     validation |-> f.validation,
     order |-> order]

HasDuplicateNames(fields) ==
    \E i, j \in DOMAIN fields : i # j /\ fields[i].name = fields[j].name

(***************************************************************************)
(* Physical schema: the statements of createTable, dropTable and           *)
(* updateTableSchema, each applied by the store on its own                 *)
(***************************************************************************)
Failed(t) == [ok |-> FALSE, t |-> t]

Done(t) == [ok |-> TRUE, t |-> t]

\* `"<name>" <sqlType> [NOT NULL] [DEFAULT ...]`
ColumnDef(f) ==
    [name |-> f.name, type |-> SQL_TYPE_MAPPING(f.type),
     notNull |-> f.isRequired, dflt |-> f.defaultValue]

IndexName(tableName, fieldName) == tableName \o "_" \o fieldName \o "_unique"

ColNames(t) == {c.name : c \in t.cols}

CreateTableSqlIfNotExists(t, fields) ==
    IF HasDuplicateNames(fields) \/ NamesOf(fields) \cap SystemColumns # {}
    THEN Failed(t)
    ELSE IF t.exists
    THEN Done(t)
    ELSE Done([exists |-> TRUE, cols |-> {ColumnDef(f) : f \in Range(fields)},
               idx |-> {}, rows |-> {}, serial |-> 0, trigger |-> FALSE])

\* CREATE TABLE "<tableName>" (id SERIAL PRIMARY KEY, created_at ...,
\* updated_at ..., one column per field): refused when the relation exists
\* or a column name is given twice (a field named like a system column is)
CreateTableSql(t, fields) ==
    IF t.exists \/ HasDuplicateNames(fields)
       \/ NamesOf(fields) \cap SystemColumns # {}
    THEN Failed(t)
    ELSE Done([exists |-> TRUE, cols |-> {ColumnDef(f) : f \in Range(fields)},
               idx |-> {}, rows |-> {}, serial |-> 0, trigger |-> FALSE])

\* CREATE UNIQUE INDEX "<table>_<field>_unique" ON "<table>" ("<field>")
CreateIndexSql(t, tableName, fieldName) ==
    IF \/ ~t.exists
       \/ fieldName \notin ColNames(t)
       \/ IndexName(tableName, fieldName) \in {i.name : i \in t.idx}
       \/ \E r1, r2 \in t.rows :
              /\ r1.id # r2.id
              /\ r1.vals[fieldName] # NullV
              /\ r1.vals[fieldName] = r2.vals[fieldName]
    THEN Failed(t)
    ELSE Done([t EXCEPT !.idx = @ \cup {[name |-> IndexName(tableName, fieldName),
                                         col |-> fieldName]}])

\* CREATE OR REPLACE FUNCTION update_updated_at_column ...; CREATE TRIGGER
CreateTriggerSql(t) ==
    IF ~t.exists \/ t.trigger THEN Failed(t)
    ELSE Done([t EXCEPT !.trigger = TRUE])

DropTableSqlKeepsTable(t) == Done(t)

\* DROP TABLE IF EXISTS "<tableName>" CASCADE
DropTableSql(t) == Done(NoTable)

DropColumnSqlLosesRows(t, name) ==
    IF ~t.exists THEN Failed(t)
    ELSE Done([t EXCEPT !.cols = {c \in @ : c.name # name},
                        !.idx  = {i \in @ : i.col # name},
                        !.rows = {}])

\* ALTER TABLE "<tableName>" DROP COLUMN IF EXISTS "<name>"; the indexes on
\* the column go with it
DropColumnSql(t, name) ==
    IF ~t.exists THEN Failed(t)
    ELSE Done([t EXCEPT
                 !.cols = {c \in @ : c.name # name},
                 !.idx  = {i \in @ : i.col # name},
                 !.rows = {[r EXCEPT !.vals =
                               [k \in (DOMAIN r.vals) \ {name} |-> r.vals[k]]]
                           : r \in @}])

\* ALTER TABLE "<tableName>" ADD COLUMN <columnDef>; existing rows get the
\* default, or NULL, which a NOT NULL column refuses
AddColumnSql(t, f) ==
    LET c == ColumnDef(f)
        fill == IF c.dflt = Undefined THEN NullV ELSE c.dflt
    IN  IF \/ ~t.exists
           \/ c.name \in ColNames(t) \cup SystemColumns
           \/ (c.notNull /\ fill = NullV /\ t.rows # {})
        THEN Failed(t)
        ELSE Done([t EXCEPT
                     !.cols = @ \cup {c},
                     !.rows = {[r EXCEPT !.vals =
                                   [k \in (DOMAIN r.vals) \cup {c.name} |->
                                       IF k = c.name THEN fill ELSE r.vals[k]]]
                               : r \in @}])

\* ALTER TABLE "<tableName>" ALTER COLUMN "<name>" <sqlType> [NOT NULL]:
\* the statement names no action (TYPE, SET NOT NULL, ...) and PostgreSQL
\* rejects it as a syntax error, whatever the table is
AlterColumnSql(t, f) == Failed(t)

\* DROP INDEX IF EXISTS "<table>_<field>_unique"
DropIndexSql(t, tableName, fieldName) ==
    Done([t EXCEPT !.idx = {i \in @ : i.name # IndexName(tableName, fieldName)}])

Stmt(k, f) == [k |-> k, f |-> f]

Exec(t, tableName, s) ==
    CASE s.k = "dropcol" -> DropColumnSql(t, s.f.name)
      [] s.k = "addcol"  -> AddColumnSql(t, s.f)
      [] s.k = "addidx"  -> CreateIndexSql(t, tableName, s.f.name)
      [] s.k = "alter"   -> AlterColumnSql(t, s.f)
      [] s.k = "dropidx" -> DropIndexSql(t, tableName, s.f.name)

\* existingFieldMap.get(name): a Map built from the list keeps the last
\* entry of a name
MapGet(fields, name) ==
    LET hits == {i \in DOMAIN fields : fields[i].name = name}
    IN  fields[CHOOSE i \in hits : \A j \in hits : j <= i]

RECURSIVE DropStmts(_, _, _)
\* "Handle deleted columns"
DropStmts(existingFields, newNames, i) ==
    IF i > Len(existingFields) THEN <<>>
    ELSE (IF existingFields[i].name \in newNames THEN <<>>
          ELSE <<Stmt("dropcol", existingFields[i])>>)
         \o DropStmts(existingFields, newNames, i + 1)

FieldStmtsAlwaysAlters(existingFields, newField) ==
    IF newField.name \notin NamesOf(existingFields)
    THEN <<Stmt("addcol", newField)>>
         \o (IF newField.isUnique THEN <<Stmt("addidx", newField)>> ELSE <<>>)
    ELSE <<Stmt("alter", newField)>>

\* the statements one new field gives rise to
FieldStmts(existingFields, newField) ==
    IF newField.name \notin NamesOf(existingFields)
    THEN <<Stmt("addcol", newField)>>
         \o (IF newField.isUnique THEN <<Stmt("addidx", newField)>> ELSE <<>>)
    ELSE LET e == MapGet(existingFields, newField.name)
         IN  IF \/ e.type # newField.type
                \/ e.isRequired # newField.isRequired
                \/ e.isUnique # newField.isUnique
             THEN <<Stmt("alter", newField)>>
                  \o (IF e.isUnique /\ ~newField.isUnique
                      THEN <<Stmt("dropidx", newField)>>
                      ELSE IF ~e.isUnique /\ newField.isUnique
                      THEN <<Stmt("addidx", newField)>>
                      ELSE <<>>)
             ELSE <<>>

RECURSIVE NewStmts(_, _, _)
\* "Handle new or modified columns"
NewStmts(existingFields, newFields, i) ==
    IF i > Len(newFields) THEN <<>>
    ELSE FieldStmts(existingFields, newFields[i])
         \o NewStmts(existingFields, newFields, i + 1)

\* the statements updateTableSchema issues, in order, each on its own
updateTableSchema(existingResource, newFields) ==
    DropStmts(existingResource.fields, NamesOf(newFields), 1)
        \o NewStmts(existingResource.fields, newFields, 1)

\* the index statements of createTable
RECURSIVE UniqueStmts(_, _)
UniqueStmts(fields, i) ==
    IF i > Len(fields) THEN <<>>
    ELSE (IF fields[i].isUnique THEN <<Stmt("addidx", fields[i])>> ELSE <<>>)
         \o UniqueStmts(fields, i + 1)

(***************************************************************************)
(* Catalog writes inside a Prisma transaction (on the transaction's view)  *)
(***************************************************************************)
\* tx.resource.create with nested fields.create: refused by
\* resources_name_key / resources_tableName_key when a committed row has the
\* name or the table name, and by fields_resourceId_name_key when two
\* fields share a name
ResourceCreate(definition) ==
    LET tableName == generateTableName(definition.name)
        fields == definition.fields
        ids == UsedFieldIds
        \* ids for the rows, in list order
        idOf(i) == CHOOSE k \in 1..(Cardinality(ids) + Len(fields)) :
                       /\ k \notin ids
                       /\ Cardinality({j \in 1..k : j \notin ids}) = i
    IN  IF \/ \E n \in Names : catalog[n].id # 0 /\
                  (n = definition.name \/ catalog[n].tableName = tableName)
           \/ HasDuplicateNames(fields)
        THEN Failed(NoEntry)
        ELSE Done([id |-> FreshId(UsedResourceIds), tableName |-> tableName,
                   fields |-> {FieldRow(fields[i], idOf(i), i - 1)
                               : i \in DOMAIN fields}])

RECURSIVE DeleteFields(_, _, _, _)
\* "Handle deleted fields": tx.field.delete({ where: { id } }) throws when
\* no row has the id
DeleteFields(cat, existingFields, newNames, i) ==
    IF i > Len(existingFields) THEN Done(cat)
    ELSE IF existingFields[i].name \in newNames
    THEN DeleteFields(cat, existingFields, newNames, i + 1)
    ELSE IF existingFields[i].id \notin {f.id : f \in cat.fields}
    THEN Failed(cat)
    ELSE DeleteFields([cat EXCEPT !.fields =
                          {f \in @ : f.id # existingFields[i].id}],
                      existingFields, newNames, i + 1)

RECURSIVE UpsertFields(_, _, _, _)
\* "Handle new or updated fields": tx.field.update by id (throws when no
\* row has the id) or tx.field.create (refused by the foreign key when the
\* resource row of existingResource.id is gone, and by
\* fields_resourceId_name_key when the resource has a field of that name)
UpsertFields(cat, existingResource, newFields, i) ==
    IF i > Len(newFields) THEN Done(cat)
    ELSE LET n == newFields[i]
             known == n.name \in NamesOf(existingResource.fields)
             e == MapGet(existingResource.fields, n.name)
         IN  IF known
             THEN IF e.id \notin {f.id : f \in cat.fields}
                  THEN Failed(cat)
                  ELSE UpsertFields(
                         [cat EXCEPT !.fields =
                            {IF f.id = e.id
                             THEN [FieldRow(n, f.id, i - 1) EXCEPT !.name = f.name]
                             ELSE f : f \in @}],
                         existingResource, newFields, i + 1)
             ELSE IF \/ cat.id # existingResource.id
                     \/ n.name \in {f.name : f \in cat.fields}
                  THEN Failed(cat)
                  ELSE UpsertFields(
                         [cat EXCEPT !.fields = @ \cup
                            {FieldRow(n,
                                FreshId(UsedFieldIds \cup {f.id : f \in cat.fields}),
                                i - 1)}],
                         existingResource, newFields, i + 1)

\* updateFields(tx, existingResource, newFields)
updateFields(cat, existingResource, newFields) ==
    LET d == DeleteFields(cat, existingResource.fields, NamesOf(newFields), 1)
    IN  IF d.ok THEN UpsertFields(d.t, existingResource, newFields, 1) ELSE d

(***************************************************************************)
(* State                                                                   *)
(***************************************************************************)
\* the envelope an operation returned: msg is "ok" or the envelope's error,
\* message tells the two kinds of error.message apart that a caught
\* exception carries: the store refused the write or statement, or the
\* store could not be reached
NoRet ==
    [kind |-> "none", name |-> "", msg |-> "none", message |-> "",
     data |-> [items |-> <<>>,
               pagination |-> [page |-> 0, limit |-> 0, total |-> 0,
                               totalPages |-> 0]]]

\* history only: the two stores as an update request found them
NoBefore == [catalog |-> <<>>, tables |-> <<>>]

Init ==
    /\ catalog = [n \in Names |-> NoEntry]
    /\ tables = [t \in TableNames |-> NoTable]
    /\ pc = [p \in Procs |-> "idle"]
    /\ op = [p \in Procs |-> NoOp]
    /\ existing = [p \in Procs |-> NoExisting]
    /\ txCat = [p \in Procs |-> NoEntry]
    /\ todo = [p \in Procs |-> <<>>]
    /\ ret = [p \in Procs |-> NoRet]
    /\ calls = [p \in Procs |-> NoOp]
    /\ before = [p \in Procs |-> NoBefore]
    /\ held = [p \in Procs |-> 0]

\* the positions at which a request is inside its prisma.$transaction
\* callback, after its first write to the resource's row
TxPcs == {"c_table", "c_index", "c_trigger", "c_commit",
          "u_fields", "u_schema", "u_commit", "d_drop", "d_commit"}

\* another transaction has an uncommitted write on the resource row (or on
\* its unique keys): a write to the same row waits for it to end
LockedByOther(p, tableName) ==
    \E q \in Procs \ {p} :
        pc[q] \in TxPcs /\ generateTableName(op[q].name) = tableName

resourceDefinitionSchemaNoMin(definition) ==
    \A f \in Range(definition.fields) :
        f.type \in {"STRING", "INTEGER", "FLOAT", "BOOLEAN", "DATE",
                    "DATETIME", "TEXT", "JSON"}

\* z.array(...).min(1, 'At least one field is required'), z.nativeEnum
resourceDefinitionSchema(definition) ==
    /\ Len(definition.fields) >= 1
    /\ \A f \in Range(definition.fields) :
           f.type \in {"STRING", "INTEGER", "FLOAT", "BOOLEAN", "DATE",
                       "DATETIME", "TEXT", "JSON"}

getResourceForgetsFields(name) ==
    IF catalog[name].id = 0
    THEN [success |-> FALSE, error |-> "Resource not found", data |-> NoEntry]
    ELSE [success |-> TRUE, error |-> "",
          data |-> [catalog[name] EXCEPT !.fields = {}]]

getResourceNeverFinds(name) ==
    [success |-> FALSE, error |-> "Resource not found", data |-> NoEntry]

\* findUnique({ where: { name } }) on the committed catalog
getResource(name) ==
    IF catalog[name].id = 0
    THEN [success |-> FALSE, error |-> "Resource not found", data |-> NoEntry]
    ELSE [success |-> TRUE, error |-> "", data |-> catalog[name]]

\* the transaction callback returned: its writes become the catalog's
Commit(p) == [catalog EXCEPT ![op[p].name] = txCat[p]]

RollbackKeepsWrites(p) == [catalog EXCEPT ![op[p].name] = txCat[p]]

\* the transaction callback threw: its writes are discarded
Rollback(p) == catalog

\* the envelope goes back to the caller
\* the steps an operation takes between const client = await
\* pgPool.connect() and the finally block that releases the client:
\* createTable, updateTableSchema, dropTable and the data statements
Clients == {"c_table", "c_index", "c_trigger", "u_schema", "d_drop",
            "statement", "count"}

CheckoutWithoutFinally(p, label) ==
    [held EXCEPT ![p] = IF label \in Clients /\ pc[p] \notin Clients THEN @ + 1
                        ELSE IF label \notin Clients /\ pc[p] \in Clients
                                /\ label # "idle"
                        THEN @ - 1
                        ELSE @]

\* the clients of pgPool that request p has checked out when it moves on
\* to label: one more when it enters one of those functions, one less when
\* it leaves it, by return or by throw (finally { client.release() })
Checkout(p, label) ==
    [held EXCEPT ![p] = IF label \in Clients /\ pc[p] \notin Clients THEN @ + 1
                        ELSE IF label \notin Clients /\ pc[p] \in Clients
                        THEN @ - 1
                        ELSE @]

Reply(p, kind, name, msg, message, data) ==
    /\ pc' = [pc EXCEPT ![p] = "idle"]
    /\ held' = Checkout(p, "idle")
    /\ ret' = [ret EXCEPT ![p] = [kind |-> kind, name |-> name, msg |-> msg,
                                 message |-> message, data |-> data]]
    /\ before' = [before EXCEPT ![p] = NoBefore]
    /\ op' = [op EXCEPT ![p] = NoOp]
    /\ existing' = [existing EXCEPT ![p] = NoExisting]
    /\ txCat' = [txCat EXCEPT ![p] = NoEntry]
    /\ todo' = [todo EXCEPT ![p] = <<>>]

\* an envelope without data
Envelope(p, kind, name, msg, message) ==
    Reply(p, kind, name, msg, message, NoRet.data)

Return(p, kind, name, msg) == Envelope(p, kind, name, msg, "")

\* a throw inside the transaction callback, caught by the operation
Abort(p, msg, message) ==
    /\ catalog' = Rollback(p)
    /\ Envelope(p, op[p].kind, op[p].name, msg, message)

\* the store refused the write or the statement
Refused(p, msg) == Abort(p, msg, "refused")

UnavailableThrows(p, msg) ==
    /\ catalog' = Rollback(p)
    /\ Envelope(p, "thrown", op[p].name, "none", "unavailable")

\* the store could not be reached (no connection, timeout, failed commit)
Unavailable(p, msg) == Abort(p, msg, "unavailable")

\* the request log of a scenario that keeps one: what each client asked for
Log(p, log, request) ==
    calls' = IF log THEN [calls EXCEPT ![p] = request] ELSE calls

\* the request goes on to its next step
Goto(p, label) ==
    /\ pc' = [pc EXCEPT ![p] = label]
    /\ held' = Checkout(p, label)
    /\ ret' = [ret EXCEPT ![p] = NoRet]
    /\ UNCHANGED before

(***************************************************************************)
(* POST /define-resource: validateSchema, then createResource              *)
(***************************************************************************)
DefineRequest(p, n, fields, log) ==
    /\ pc[p] = "idle"
    /\ Log(p, log, DeclOp("define", n, fields))
    /\   LET definition == DeclOp("define", n, fields)
         IN  IF ~resourceDefinitionSchema(definition)
             THEN Return(p, "define", n, "Validation error")
             ELSE IF getResource(n).success
             THEN Return(p, "define", n, "Resource already exists")
             ELSE /\ op' = [op EXCEPT ![p] = definition]
                  /\ Goto(p, "c_create")
                  /\ UNCHANGED <<existing, txCat, todo>>
    /\ UNCHANGED <<catalog, tables>>

\* 1. Save resource metadata
DefineInsert(p) ==
    /\ pc[p] = "c_create"
    /\ UNCHANGED calls
    /\ \/ /\ ~LockedByOther(p, generateTableName(op[p].name))
          /\ LET r == ResourceCreate(op[p])
             IN  IF r.ok
                 THEN /\ txCat' = [txCat EXCEPT ![p] = r.t]
                      /\ Goto(p, "c_table")
                      /\ UNCHANGED <<catalog, op, existing, todo>>
                 ELSE Refused(p, "Failed to create resource")
       \/ Unavailable(p, "Failed to create resource")
    /\ UNCHANGED tables

\* 2. Create database table: pgPool.connect and the CREATE TABLE statement
CreateTableStep(p) ==
    /\ pc[p] = "c_table"
    /\ UNCHANGED calls
    /\ LET tn == txCat[p].tableName
           r == CreateTableSql(tables[tn], op[p].fields)
           u == UniqueStmts(op[p].fields, 1)
       IN  \/ /\ r.ok
              /\ tables' = [tables EXCEPT ![tn] = r.t]
              /\ todo' = [todo EXCEPT ![p] = u]
              /\ Goto(p, IF u = <<>> THEN "c_trigger" ELSE "c_index")
              /\ UNCHANGED <<catalog, op, existing, txCat>>
           \/ /\ ~r.ok
              /\ UNCHANGED tables
              /\ Refused(p, "Failed to create resource")
           \/ /\ UNCHANGED tables
              /\ Unavailable(p, "Failed to create resource")

\* "Add unique constraints", one statement per unique field
CreateIndexStep(p) ==
    /\ pc[p] = "c_index"
    /\ UNCHANGED calls
    /\ LET tn == txCat[p].tableName
           r == Exec(tables[tn], tn, Head(todo[p]))
       IN  \/ /\ r.ok
              /\ tables' = [tables EXCEPT ![tn] = r.t]
              /\ todo' = [todo EXCEPT ![p] = Tail(@)]
              /\ Goto(p, IF Tail(todo[p]) = <<>> THEN "c_trigger" ELSE "c_index")
              /\ UNCHANGED <<catalog, op, existing, txCat>>
           \/ /\ ~r.ok
              /\ UNCHANGED tables
              /\ Refused(p, "Failed to create resource")
           \/ /\ UNCHANGED tables
              /\ Unavailable(p, "Failed to create resource")

\* "Create updated_at trigger", then client.release()
CreateTriggerStep(p) ==
    /\ pc[p] = "c_trigger"
    /\ UNCHANGED calls
    /\ LET tn == txCat[p].tableName
           r == CreateTriggerSql(tables[tn])
       IN  \/ /\ r.ok
              /\ tables' = [tables EXCEPT ![tn] = r.t]
              /\ Goto(p, "c_commit")
              /\ UNCHANGED <<catalog, op, existing, txCat, todo>>
           \/ /\ ~r.ok
              /\ UNCHANGED tables
              /\ Refused(p, "Failed to create resource")
           \/ /\ UNCHANGED tables
              /\ Unavailable(p, "Failed to create resource")

\* the callback returns and the transaction commits, or the commit fails
DefineCommit(p) ==
    /\ pc[p] = "c_commit"
    /\ UNCHANGED calls
    /\ \/ /\ catalog' = Commit(p)
          /\ Return(p, "define", op[p].name, "ok")
       \/ Unavailable(p, "Failed to create resource")
    /\ UNCHANGED tables

(***************************************************************************)
(* PUT /:name: validateSchema, then updateResource                         *)
(***************************************************************************)
\* "Get existing resource", before the transaction starts
UpdateRequest(p, n, fields, log) ==
    /\ pc[p] = "idle"
    /\ Log(p, log, DeclOp("update", n, fields))
    /\   LET definition == DeclOp("update", n, fields)
         IN  IF ~resourceDefinitionSchema(definition)
             THEN Return(p, "update", n, "Validation error")
             ELSE IF ~getResource(n).success
             THEN Return(p, "update", n, "Resource not found")
             ELSE \E fs \in OrderedFields(catalog[n].fields) :
                    /\ op' = [op EXCEPT ![p] = definition]
                    /\ existing' = [existing EXCEPT ![p] =
                           [id |-> catalog[n].id,
                            tableName |-> catalog[n].tableName,
                            fields |-> fs]]
                    /\ pc' = [pc EXCEPT ![p] = "u_update"]
                    /\ held' = Checkout(p, "u_update")
                    /\ ret' = [ret EXCEPT ![p] = NoRet]
                    /\ before' = [before EXCEPT ![p] =
                           [catalog |-> catalog, tables |-> tables]]
                    /\ UNCHANGED <<txCat, todo>>
    /\ UNCHANGED <<catalog, tables>>

\* 1. Update resource metadata: tx.resource.update({ where: { name } })
\* throws when no committed row has the name and waits while another
\* transaction holds the row
UpdateRow(p) ==
    /\ pc[p] = "u_update"
    /\ UNCHANGED calls
    /\ \/ /\ getResource(op[p].name).success
          /\ ~LockedByOther(p, generateTableName(op[p].name))
          /\ txCat' = [txCat EXCEPT ![p] = catalog[op[p].name]]
          /\ Goto(p, "u_fields")
          /\ UNCHANGED <<catalog, op, existing, todo>>
       \/ /\ ~getResource(op[p].name).success
          /\ Refused(p, "Failed to update resource")
       \/ Unavailable(p, "Failed to update resource")
    /\ UNCHANGED tables

\* 2. Compare and update fields
UpdateFieldsStep(p) ==
    /\ pc[p] = "u_fields"
    /\ UNCHANGED calls
    /\ LET r == updateFields(txCat[p], existing[p], op[p].fields)
           s == updateTableSchema(existing[p], op[p].fields)
       IN  \/ /\ r.ok
              /\ txCat' = [txCat EXCEPT ![p] = r.t]
              /\ todo' = [todo EXCEPT ![p] = s]
              /\ Goto(p, IF s = <<>> THEN "u_commit" ELSE "u_schema")
              /\ UNCHANGED <<catalog, op, existing>>
           \/ /\ ~r.ok
              /\ Refused(p, "Failed to update resource")
           \/ Unavailable(p, "Failed to update resource")
    /\ UNCHANGED tables

\* 3. Update DB schema: the next statement of updateTableSchema
UpdateSchemaStep(p) ==
    /\ pc[p] = "u_schema"
    /\ UNCHANGED calls
    /\ LET tn == existing[p].tableName
           r == Exec(tables[tn], tn, Head(todo[p]))
       IN  \/ /\ r.ok
              /\ tables' = [tables EXCEPT ![tn] = r.t]
              /\ todo' = [todo EXCEPT ![p] = Tail(@)]
              /\ Goto(p, IF Tail(todo[p]) = <<>> THEN "u_commit" ELSE "u_schema")
              /\ UNCHANGED <<catalog, op, existing, txCat>>
           \/ /\ ~r.ok
              /\ UNCHANGED tables
              /\ Refused(p, "Failed to update resource")
           \/ /\ UNCHANGED tables
              /\ Unavailable(p, "Failed to update resource")

\* 4. Return updated resource, and the transaction commits
UpdateCommit(p) ==
    /\ pc[p] = "u_commit"
    /\ UNCHANGED calls
    /\ \/ /\ catalog' = Commit(p)
          /\ Return(p, "update", op[p].name, "ok")
       \/ Unavailable(p, "Failed to update resource")
    /\ UNCHANGED tables

(***************************************************************************)
(* DELETE /:name: deleteResource                                           *)
(***************************************************************************)
DeleteRequest(p, n, log) ==
    /\ pc[p] = "idle"
    /\ Log(p, log, DeclOp("delete", n, <<>>))
    /\   IF ~getResource(n).success
         THEN Return(p, "delete", n, "Resource not found")
         ELSE /\ op' = [op EXCEPT ![p] = DeclOp("delete", n, <<>>)]
              /\ existing' = [existing EXCEPT ![p] =
                     [id |-> catalog[n].id,
                      tableName |-> catalog[n].tableName, fields |-> <<>>]]
              /\ Goto(p, "d_delete")
              /\ UNCHANGED <<txCat, todo>>
    /\ UNCHANGED <<catalog, tables>>

\* 1. Delete metadata (Fields are also deleted by Cascade)
DeleteRow(p) ==
    /\ pc[p] = "d_delete"
    /\ UNCHANGED calls
    /\ \/ /\ getResource(op[p].name).success
          /\ ~LockedByOther(p, generateTableName(op[p].name))
          /\ txCat' = [txCat EXCEPT ![p] = NoEntry]
          /\ Goto(p, "d_drop")
          /\ UNCHANGED <<catalog, op, existing, todo>>
       \/ /\ ~getResource(op[p].name).success
          /\ Refused(p, "Failed to delete resource")
       \/ Unavailable(p, "Failed to delete resource")
    /\ UNCHANGED tables

\* 2. Delete actual table
DropTableStep(p) ==
    /\ pc[p] = "d_drop"
    /\ UNCHANGED calls
    /\ LET tn == existing[p].tableName
           r == DropTableSql(tables[tn])
       IN  \/ /\ tables' = [tables EXCEPT ![tn] = r.t]
              /\ Goto(p, "d_commit")
              /\ UNCHANGED <<catalog, op, existing, txCat, todo>>
           \/ /\ ~r.ok
              /\ UNCHANGED tables
              /\ Refused(p, "Failed to delete resource")
           \/ /\ UNCHANGED tables
              /\ Unavailable(p, "Failed to delete resource")

DeleteCommit(p) ==
    /\ pc[p] = "d_commit"
    /\ UNCHANGED calls
    /\ \/ /\ catalog' = Commit(p)
          /\ Return(p, "delete", op[p].name, "ok")
       \/ Unavailable(p, "Failed to delete resource")
    /\ UNCHANGED tables

\* GET /:name: getResource
GetRequest(p, n) ==
    /\ pc[p] = "idle"
    /\ UNCHANGED calls
    /\   Return(p, "get", n, IF getResource(n).success THEN "ok"
                          ELSE getResource(n).error)
    /\ UNCHANGED <<catalog, tables>>

\* the steps of a declaration request after its first
DeclarationStep(p) ==
    \/ DefineInsert(p) \/ CreateTableStep(p) \/ CreateIndexStep(p)
    \/ CreateTriggerStep(p) \/ DefineCommit(p)
    \/ UpdateRow(p) \/ UpdateFieldsStep(p) \/ UpdateSchemaStep(p)
    \/ UpdateCommit(p)
    \/ DeleteRow(p) \/ DropTableStep(p) \/ DeleteCommit(p)

(***************************************************************************)
(* DynamicDataService: record values, validation and the data statements   *)
(***************************************************************************)
\* a string is held by an index: 0 is the empty string, 1..99 are texts
\* that are no numerals, 100 + n is the decimal text of n
Str(k) == [t |-> "string", v |-> k]

\* a JavaScript number with a fractional part: m thousandths
Frac(m) == [t |-> "fraction", v |-> m]

Values == {Str(1), Num(1)}

\* the payloads the model submits: the empty object, the key x with a text
\* and with a number, and both keys
Payloads ==
    {<<>>} \cup {[k \in {"x"} |-> v] : v \in Values}
           \cup {[k \in FieldNames |-> Str(1)]}

Ids == 1..MaxRows

\* QueryOptions: 0, "" and the empty filter stand for an absent option
\* (options.limit || 50 treats 0 as absent too)
NoOptions == [page |-> 0, limit |-> 0, sort |-> "", order |-> "", filter |-> <<>>]

\* the body of a success envelope: data (one row, or items and pagination)
NoPagination == [page |-> 0, limit |-> 0, total |-> 0, totalPages |-> 0]

NoData == [items |-> <<>>, pagination |-> NoPagination]

\* data[field.name]
Lookup(data, key) == IF key \in DOMAIN data THEN data[key] ELSE Undefined

validateFieldType(value, type) ==
    CASE type \in {"STRING", "TEXT"} -> value.t = "string"
      [] type = "INTEGER"            -> value.t = "number"
      [] type = "FLOAT"              -> value.t \in {"number", "fraction"}
      [] type = "BOOLEAN"            -> value.t = "boolean"
      [] OTHER                       -> TRUE

\* the characters of a text: the texts 1..3 are a, ab and b
Texts == <<(<<"a">>), (<<"a", "b">>), (<<"b">>)>>

RECURSIVE Digits(_)
Digits(n) ==
    IF n < 10 THEN <<ToString(n)>> ELSE Digits(n \div 10) \o <<ToString(n % 10)>>

\* String(value), as RegExp.prototype.test converts its argument
Chars(value) ==
    CASE value.t = "string" /\ value.v = 0 -> <<>>
      [] value.t = "string" /\ value.v \in DOMAIN Texts -> Texts[value.v]
      [] value.t = "string" /\ value.v >= 100 -> Digits(value.v - 100)
      [] value.t = "number" /\ value.v >= 0 -> Digits(value.v)
      [] value.t = "number" /\ value.v < 0 -> <<"-">> \o Digits(0 - value.v)
      [] OTHER -> <<"?">>

\* new RegExp(pattern).test(value): the pattern matches somewhere in the
\* value, at the start if it begins with ^, up to the end if it ends with $
RegExpTest(pattern, value) ==
    LET text == Chars(value)
        n == Len(pattern.body)
    IN  \E i \in 1..(Len(text) + 1) :
           /\ i + n - 1 <= Len(text)
           /\ SubSeq(text, i, i + n - 1) = pattern.body
           /\ pattern.start => i = 1
           /\ pattern.end => i + n - 1 = Len(text)

\* the number a relational operator of JavaScript compares, in thousandths;
\* a text that is no numeral converts to NaN
IsNumeric(value) ==
    \/ value.t \in {"number", "fraction"}
    \/ value.t = "string" /\ (value.v = 0 \/ value.v >= 100)

Thousandths(value) ==
    CASE value.t = "number"   -> value.v * 1000
      [] value.t = "fraction" -> value.v
      [] value.t = "string" /\ value.v >= 100 -> (value.v - 100) * 1000
      [] OTHER -> 0

\* a < b; every comparison with NaN is false
Less(a, b) == IsNumeric(a) /\ IsNumeric(b) /\ Thousandths(a) < Thousandths(b)

validateFieldRulesExclusive(value, rules) ==
    IF rules.min # Undefined /\ ~Less(rules.min, value)
    THEN "must be at least " \o ToString(rules.min.v)
    ELSE IF rules.max # Undefined /\ ~Less(value, rules.max)
    THEN "must be at most " \o ToString(rules.max.v)
    ELSE IF rules.pattern # NoPattern /\ ~RegExpTest(rules.pattern, value)
    THEN "format is invalid"
    ELSE ""

\* validateFieldRules: the first rule the value breaks (min, max, pattern)
validateFieldRules(value, rules) ==
    IF rules.min # Undefined /\ Less(value, rules.min)
    THEN "must be at least " \o ToString(rules.min.v)
    ELSE IF rules.max # Undefined /\ Less(rules.max, value)
    THEN "must be at most " \o ToString(rules.max.v)
    ELSE IF rules.pattern # NoPattern /\ ~RegExpTest(rules.pattern, value)
    THEN "format is invalid"
    ELSE ""

FieldErrorRequiresOnUpdate(data, field, isUpdate) ==
    LET value == Lookup(data, field.name)
    IN  IF field.isRequired /\ value \in {Undefined, NullV}
        THEN "is required"
        ELSE IF value \in {Undefined, NullV}
        THEN ""
        ELSE IF ~validateFieldType(value, field.type)
        THEN "type"
        ELSE validateFieldRules(value, field.validation)

\* what the loop body of validateData finds wrong with one field
FieldError(data, field, isUpdate) ==
    LET value == Lookup(data, field.name)
    IN  IF ~isUpdate /\ field.isRequired /\ value \in {Undefined, NullV}
        THEN "is required"
        ELSE IF value \in {Undefined, NullV}
        THEN ""
        ELSE IF ~validateFieldType(value, field.type)
        THEN "type"
        ELSE validateFieldRules(value, field.validation)

\* message of a validation failure
FieldMessage(name, what) ==
    IF what = "type"
    THEN "Field '" \o name \o "': " \o what
    ELSE "Field '" \o name \o "' " \o what

validateDataAcceptsAll(data, fields, isUpdate) ==
    {[success |-> TRUE, field |-> "", message |-> ""]}

\* validateData: the first failing field, in the order the catalog returns
\* the fields (include: { fields: true } asks for no order)
validateData(data, fields, isUpdate) ==
    LET bad == {f \in fields : FieldError(data, f, isUpdate) # ""}
    IN  IF bad = {}
        THEN {[success |-> TRUE, field |-> "", message |-> ""]}
        ELSE {[success |-> FALSE, field |-> f.name,
               message |-> FieldMessage(f.name, FieldError(data, f, isUpdate))]
              : f \in bad}

\* the store casts a parameter to the column's type; DECIMAL(10,2) rounds
\* to two decimal places
Coerce(sqlType, value) ==
    CASE value = NullV -> [ok |-> TRUE, v |-> NullV]
      [] sqlType \in {"VARCHAR(255)", "TEXT"} ->
            IF value.t = "number"
            THEN [ok |-> TRUE, v |-> Str(100 + value.v)]
            ELSE IF value.t = "fraction"
            THEN [ok |-> TRUE, v |-> Str(100000 + value.v)]
            ELSE [ok |-> value.t = "string", v |-> value]
      [] sqlType = "INTEGER" ->
            IF value.t = "string"
            THEN [ok |-> value.v >= 100, v |-> Num(value.v - 100)]
            ELSE [ok |-> value.t = "number", v |-> value]
      [] sqlType = "DECIMAL(10,2)" ->
            IF value.t = "fraction"
            THEN LET r == ((value.v + 5) \div 10) * 10
                 IN  [ok |-> TRUE,
                      v |-> IF r % 1000 = 0 THEN Num(r \div 1000) ELSE Frac(r)]
            ELSE IF value.t = "string"
            THEN [ok |-> value.v >= 100, v |-> Num(value.v - 100)]
            ELSE [ok |-> value.t = "number", v |-> value]
      [] OTHER -> [ok |-> TRUE, v |-> value]

ColType(t, name) == (CHOOSE c \in t.cols : c.name = name).type

\* the values a statement gives the user columns named in data
Written(t, data) ==
    [k \in (DOMAIN data) \ SystemColumns |-> Coerce(ColType(t, k), data[k]).v]

\* a NOT NULL column left NULL, or a unique index that already has the value
Violates(t, vals, id) ==
    \/ \E c \in t.cols : c.notNull /\ vals[c.name] = NullV
    \/ \E i \in t.idx, r \in t.rows :
           r.id # id /\ vals[i.col] # NullV /\ r.vals[i.col] = vals[i.col]

\* the latest timestamp a row of the table carries
Latest(t) ==
    LET stamps == {r.created_at : r \in t.rows} \cup {r.updated_at : r \in t.rows}
    IN  IF stamps = {} THEN 0 ELSE CHOOSE k \in stamps : \A j \in stamps : j <= k

\* NOW() when a statement runs on the table: the clock has not gone back,
\* and it has advanced by at most one tick since the table's latest row
Clock(t, maxClock) ==
    {k \in 1..maxClock : Latest(t) <= k /\ k <= Latest(t) + 1}

\* a system column gets the value the statement names for it
SystemValueOk(data, key) ==
    key \notin DOMAIN data \/ data[key].t = "number"

\* what a statement can return: ok, the table after it, the rows it returns
Result(ok, t, items) == [ok |-> ok, t |-> t, items |-> items]

\* INSERT INTO "<table>" (<keys of data>) VALUES ($1, ...) RETURNING *
InsertSql(t, data, now) ==
    LET keys == DOMAIN data
        id == IF "id" \in keys THEN data["id"].v ELSE t.serial + 1
        serial == IF "id" \in keys THEN t.serial ELSE t.serial + 1
        given == Written(t, data)
        vals == [c \in ColNames(t) |->
                    IF c \in keys THEN given[c]
                    ELSE IF (CHOOSE d \in t.cols : d.name = c).dflt = Undefined
                    THEN NullV
                    ELSE (CHOOSE d \in t.cols : d.name = c).dflt]
        row == [id |-> id,
                created_at |-> IF "created_at" \in keys
                               THEN data["created_at"].v ELSE now,
                updated_at |-> IF "updated_at" \in keys
                               THEN data["updated_at"].v ELSE now,
                vals |-> vals]
    IN  IF \/ ~t.exists
           \/ keys = {}
           \/ ~(keys \subseteq ColNames(t) \cup SystemColumns)
           \/ \E k \in keys \cap SystemColumns : ~SystemValueOk(data, k)
           \/ \E k \in keys \ SystemColumns : ~Coerce(ColType(t, k), data[k]).ok
        THEN Result(FALSE, t, <<>>)
        ELSE IF Violates(t, vals, id) \/ id \in {r.id : r \in t.rows}
        THEN Result(FALSE, [t EXCEPT !.serial = serial], <<>>)
        ELSE Result(TRUE,
                    [t EXCEPT !.serial = serial, !.rows = @ \cup {row}],
                    <<row>>)

UpdateSqlNoWhere(t, data, id, now) ==
    LET keys == DOMAIN data
        hit == {r \in t.rows : r.id = id}
        new(r) == [r EXCEPT !.vals = [c \in DOMAIN r.vals |->
                      IF c \in keys THEN Written(t, data)[c] ELSE r.vals[c]]]
    IN  IF \/ ~t.exists
           \/ ~(keys \subseteq ColNames(t))
           \/ \E k \in keys : ~Coerce(ColType(t, k), data[k]).ok
        THEN Result(FALSE, t, <<>>)
        ELSE Result(TRUE, [t EXCEPT !.rows = {new(r) : r \in @}],
                    IF hit = {} THEN <<>> ELSE <<new(CHOOSE r \in hit : TRUE)>>)

\* UPDATE "<table>" SET <keys of data> WHERE id = $n RETURNING *; the
\* trigger sets updated_at to NOW() whatever the statement names for it
UpdateSql(t, data, id, now) ==
    LET keys == DOMAIN data
        given == Written(t, data)
        hit == {r \in t.rows : r.id = id}
        new(r) ==
            [id |-> IF "id" \in keys THEN data["id"].v ELSE r.id,
             created_at |-> IF "created_at" \in keys
                            THEN data["created_at"].v ELSE r.created_at,
             updated_at |-> IF t.trigger THEN now
                            ELSE IF "updated_at" \in keys
                            THEN data["updated_at"].v ELSE r.updated_at,
             vals |-> [c \in DOMAIN r.vals |->
                          IF c \in keys THEN given[c] ELSE r.vals[c]]]
    IN  IF \/ ~t.exists
           \/ keys = {}
           \/ ~(keys \subseteq ColNames(t) \cup SystemColumns)
           \/ \E k \in keys \cap SystemColumns : ~SystemValueOk(data, k)
           \/ \E k \in keys \ SystemColumns : ~Coerce(ColType(t, k), data[k]).ok
           \/ \E r \in hit : Violates(t, new(r).vals, id)
           \/ \E r \in hit, r2 \in t.rows \ hit : new(r).id = r2.id
        THEN Result(FALSE, t, <<>>)
        ELSE Result(TRUE,
                    [t EXCEPT !.rows = {IF r.id = id THEN new(r) ELSE r : r \in @}],
                    IF hit = {} THEN <<>> ELSE <<new(CHOOSE r \in hit : TRUE)>>)

\* DELETE FROM "<table>" WHERE id = $1 RETURNING *
DeleteSql(t, id) ==
    LET hit == {r \in t.rows : r.id = id}
    IN  IF ~t.exists THEN Result(FALSE, t, <<>>)
        ELSE Result(TRUE, [t EXCEPT !.rows = @ \ hit],
                    IF hit = {} THEN <<>> ELSE <<CHOOSE r \in hit : TRUE>>)

\* SELECT * FROM "<table>" WHERE id = $1
SelectByIdSql(t, id) ==
    LET hit == {r \in t.rows : r.id = id}
    IN  IF ~t.exists THEN Result(FALSE, t, <<>>)
        ELSE Result(TRUE, t, IF hit = {} THEN <<>> ELSE <<CHOOSE r \in hit : TRUE>>)

\* the value a row has in a column
Cell(r, col) ==
    CASE col = "id"         -> Num(r.id)
      [] col = "created_at" -> Num(r.created_at)
      [] col = "updated_at" -> Num(r.updated_at)
      [] OTHER              -> r.vals[col]

\* the store's order of the values of one column: NULL is larger than
\* every value
Rank(value) ==
    CASE value = NullV       -> 1000000000
      [] value.t = "fraction" -> value.v
      [] OTHER                -> value.v * 1000

\* WHERE "<key>" = $n AND ...: a NULL never equals anything
Matches(r, filter) ==
    \A k \in DOMAIN filter : Cell(r, k) # NullV /\ Cell(r, k) = filter[k]

\* ORDER BY "<col>" ASC|DESC: every sequence of the rows that is in order;
\* rows of equal value come in whatever order the store produces
Ordered(S, col, order) ==
    {s \in [1..Cardinality(S) -> S] :
        /\ \A i, j \in DOMAIN s : i # j => s[i] # s[j]
        /\ \A i, j \in DOMAIN s : i < j =>
              IF order = "desc"
              THEN Rank(Cell(s[i], col)) >= Rank(Cell(s[j], col))
              ELSE Rank(Cell(s[i], col)) <= Rank(Cell(s[j], col))}

SliceFromStart(s, limit, offset) ==
    [i \in 1..(IF Len(s) < limit THEN Len(s) ELSE limit) |-> s[i]]

\* LIMIT $limit OFFSET $offset
Slice(s, limit, offset) ==
    [i \in 1..(IF Len(s) - offset < 0 THEN 0
               ELSE IF Len(s) - offset < limit THEN Len(s) - offset
               ELSE limit) |-> s[offset + i]]

\* const limit = options.limit || 50
Limit(options) == IF options.limit = 0 THEN 50 ELSE options.limit

\* const page = options.page || 1
Page(options) == IF options.page = 0 THEN 1 ELSE options.page

\* getData's first statement: SELECT * FROM "<table>" [WHERE ...] ORDER BY
\* ... LIMIT $limit OFFSET $offset; every result the store can give
SelectSql(t, options) ==
    LET col == IF options.sort = "" THEN "created_at" ELSE options.sort
        order == IF options.sort = "" THEN "desc"
                 ELSE IF options.order = "" THEN "asc" ELSE options.order
        named == DOMAIN options.filter \cup {col}
        hits == {r \in t.rows : Matches(r, options.filter)}
    IN  IF ~t.exists \/ ~(named \subseteq ColNames(t) \cup SystemColumns)
        THEN {Result(FALSE, t, <<>>)}
        ELSE {Result(TRUE, t,
                     Slice(s, Limit(options), (Page(options) - 1) * Limit(options)))
              : s \in Ordered(hits, col, order)}

CountSqlIgnoresFilter(t, filter) == Cardinality(t.rows)

\* getData's second statement: SELECT COUNT(*) as total FROM "<table>"
\* [WHERE ...], with the filter of the first
CountSql(t, filter) == Cardinality({r \in t.rows : Matches(r, filter)})

\* pagination: { page, limit, total, totalPages: Math.ceil(total / limit) }
Pagination(options, total) ==
    [page |-> Page(options), limit |-> Limit(options), total |-> total,
     totalPages |-> (total + Limit(options) - 1) \div Limit(options)]

FailedTo(kind) ==
    CASE kind = "createData" -> "Failed to create data"
      [] kind = "updateData" -> "Failed to update data"
      [] kind = "deleteData" -> "Failed to delete data"
      [] OTHER               -> "Failed to fetch data"

\* the first step of every data operation: the declaration is looked up in
\* the catalog, and createData / updateData validate the payload against it
\* (data is the payload, or the options of getData)
DataRequest(p, kind, n, data, id) ==
    /\ pc[p] = "idle"
    /\ UNCHANGED calls
    /\ LET res == getResource(n)
       IN  IF ~res.success
           THEN Return(p, kind, n, res.error)
           ELSE \E v \in IF kind \in {"createData", "updateData"}
                         THEN validateData(data, res.data.fields,
                                           kind = "updateData")
                         ELSE {[success |-> TRUE]} :
                  IF ~v.success
                  THEN Envelope(p, kind, n, "Validation error", v.message)
                  ELSE /\ op' = [op EXCEPT ![p] = DataOp(kind, n, data, id)]
                       /\ existing' = [existing EXCEPT ![p] =
                              [id |-> res.data.id,
                               tableName |-> res.data.tableName,
                               fields |-> <<>>]]
                       /\ Goto(p, "statement")
                       /\ UNCHANGED <<txCat, todo>>
    /\ UNCHANGED <<catalog, tables>>

\* the statement of a data operation, on a pooled connection
StatementSql(t, o, now) ==
    CASE o.kind = "createData"  -> {InsertSql(t, o.data, now)}
      [] o.kind = "updateData"  -> {UpdateSql(t, o.data, o.id, now)}
      [] o.kind = "deleteData"  -> {DeleteSql(t, o.id)}
      [] o.kind = "getDataById" -> {SelectByIdSql(t, o.id)}
      [] o.kind = "getData"     -> SelectSql(t, o.data)

\* the column identifiers the operation interpolates into its statements
StatementColumns(o) ==
    CASE o.kind \in {"createData", "updateData"} ->
            DOMAIN o.data \cup (IF o.kind = "updateData" THEN {"id"} ELSE {})
      [] o.kind = "getData" ->
            DOMAIN o.data.filter
                \cup {IF o.data.sort = "" THEN "created_at" ELSE o.data.sort}
      [] OTHER -> {"id"}

\* the statement runs and the envelope is built; maxClock bounds NOW(), and
\* keep says whether the scenario records the envelope's data
DataStatement(p, maxClock, keep) ==
    /\ pc[p] = "statement"
    /\ UNCHANGED calls
    /\ LET tn == existing[p].tableName
       IN  \/ \E now \in Clock(tables[tn], maxClock) :
               \E r \in StatementSql(tables[tn], op[p], now) :
                 /\ r.ok
                 /\ tables' = [tables EXCEPT ![tn] = r.t]
                 /\ IF op[p].kind = "getData"
                    THEN /\ pc' = [pc EXCEPT ![p] = "count"]
                         /\ held' = Checkout(p, "count")
                         /\ todo' = [todo EXCEPT ![p] =
                                         IF keep THEN r.items ELSE <<>>]
                         /\ UNCHANGED <<ret, before, op, existing, txCat>>
                    ELSE Reply(p, op[p].kind, op[p].name,
                               IF op[p].kind # "createData" /\ r.items = <<>>
                               THEN "Data not found" ELSE "ok",
                               "",
                               IF keep THEN [items |-> r.items,
                                             pagination |-> NoPagination]
                               ELSE NoData)
           \/ \E now \in Clock(tables[tn], maxClock) :
               \E r \in StatementSql(tables[tn], op[p], now) :
                 /\ ~r.ok
                 /\ tables' = [tables EXCEPT ![tn] = r.t]
                 /\ Envelope(p, op[p].kind, op[p].name, FailedTo(op[p].kind),
                             "refused")
           \/ /\ UNCHANGED tables
              /\ Envelope(p, op[p].kind, op[p].name, FailedTo(op[p].kind),
                          "unavailable")
    /\ UNCHANGED catalog

\* getData's count statement runs on the same connection, after the first
\* and in no transaction with it, and the envelope is built
DataCount(p, keep) ==
    /\ pc[p] = "count"
    /\ UNCHANGED <<calls, catalog, tables>>
    /\ LET t == tables[existing[p].tableName]
           options == op[p].data
       IN  \/ IF t.exists
              THEN Reply(p, "getData", op[p].name, "ok", "",
                         IF keep
                         THEN [items |-> todo[p],
                               pagination |->
                                   Pagination(options, CountSql(t, options.filter))]
                         ELSE NoData)
              ELSE Envelope(p, "getData", op[p].name, FailedTo("getData"),
                            "refused")
           \/ Envelope(p, "getData", op[p].name, FailedTo("getData"),
                       "unavailable")

DataKinds == {"createData", "getData", "getDataById", "updateData", "deleteData"}

Kinds == DataKinds \cup {"define", "update", "delete", "get"}

\* the error of the envelope an operation's catch block builds
FailureText(kind) ==
    CASE kind = "define" -> "Failed to create resource"
      [] kind = "update" -> "Failed to update resource"
      [] kind = "delete" -> "Failed to delete resource"
      [] kind = "get"    -> "Failed to fetch resource"
      [] OTHER           -> FailedTo(kind)

\* the catalog lookup an operation starts with cannot reach the store: the
\* operation's catch block builds the envelope
LookupFails(p, kind, n) ==
    /\ pc[p] = "idle"
    /\ Envelope(p, kind, n, FailureText(kind), "unavailable")
    /\ UNCHANGED <<catalog, tables, calls>>

\* requests served one after the other; any store call may fail
Next ==
    \/ \E n \in Names, fields \in Decls : DefineRequest(1, n, fields, FALSE)
    \/ \E n \in Names, fields \in Decls : UpdateRequest(1, n, fields, FALSE)
    \/ \E n \in Names : DeleteRequest(1, n, FALSE)
    \/ \E n \in Names : GetRequest(1, n)
    \/ \E n \in Names, data \in Payloads :
          /\ tables[generateTableName(n)].serial < MaxRows
          /\ DataRequest(1, "createData", n, data, 0)
    \/ \E n \in Names, data \in Payloads, id \in Ids :
          DataRequest(1, "updateData", n, data, id)
    \/ \E n \in Names, id \in Ids : DataRequest(1, "deleteData", n, <<>>, id)
    \/ \E n \in Names, id \in Ids : DataRequest(1, "getDataById", n, <<>>, id)
    \/ \E n \in Names : DataRequest(1, "getData", n, NoOptions, 0)
    \/ DeclarationStep(1)
    \/ DataStatement(1, 1, FALSE)
    \/ DataCount(1, FALSE)

Spec == Init /\ [][Next]_vars

\* the field lists of the scenario in which the catalog lookup may fail
\* too: one field, two fields, a list that drops one and adds one, a unique
\* field and a field of another type
OpsDecls ==
    {<<Plain("x")>>, <<Plain("x"), Plain("y")>>, <<Plain("y"), Plain("z")>>,
     <<Field("x", "STRING", FALSE, TRUE)>>,
     <<Field("x", "INTEGER", FALSE, FALSE)>>}

\* every operation, every store call of which may fail, the first lookup
\* included
NextOps ==
    \/ \E n \in Names, fields \in OpsDecls : DefineRequest(1, n, fields, FALSE)
    \/ \E n \in Names, fields \in OpsDecls : UpdateRequest(1, n, fields, FALSE)
    \/ \E n \in Names : DeleteRequest(1, n, FALSE)
    \/ \E n \in Names : GetRequest(1, n)
    \/ \E n \in Names, data \in Payloads :
          /\ tables[generateTableName(n)].serial < MaxRows
          /\ DataRequest(1, "createData", n, data, 0)
    \/ \E n \in Names, data \in Payloads, id \in Ids :
          DataRequest(1, "updateData", n, data, id)
    \/ \E n \in Names, id \in Ids : DataRequest(1, "deleteData", n, <<>>, id)
    \/ \E n \in Names, id \in Ids : DataRequest(1, "getDataById", n, <<>>, id)
    \/ \E n \in Names : DataRequest(1, "getData", n, NoOptions, 0)
    \/ \E n \in Names, kind \in Kinds : LookupFails(1, kind, n)
    \/ DeclarationStep(1)
    \/ DataStatement(1, 1, FALSE)
    \/ DataCount(1, FALSE)

SpecOps == Init /\ [][NextOps]_vars

(***************************************************************************)
(* Two clients, one declaration request each, on a resource that was       *)
(* defined with the single field x                                         *)
(***************************************************************************)
ConcStart ==
    [catalog |-> [n \in Names |->
                    [id |-> 1, tableName |-> generateTableName(n),
                     fields |-> {FieldRow(Plain("x"), 1, 0)}]],
     tables |-> [t \in TableNames |->
                    CreateTriggerSql(CreateTableSql(NoTable, <<Plain("x")>>).t).t]]

InitConc ==
    /\ catalog = ConcStart.catalog
    /\ tables = ConcStart.tables
    /\ pc = [p \in Procs |-> "idle"]
    /\ op = [p \in Procs |-> NoOp]
    /\ existing = [p \in Procs |-> NoExisting]
    /\ txCat = [p \in Procs |-> NoEntry]
    /\ todo = [p \in Procs |-> <<>>]
    /\ ret = [p \in Procs |-> NoRet]
    /\ calls = [p \in Procs |-> NoOp]
    /\ before = [p \in Procs |-> NoBefore]
    /\ held = [p \in Procs |-> 0]

NextConc ==
    \E p \in Procs :
        \/ /\ calls[p] = NoOp
           /\ \E n \in Names, fields \in ConcDecls :
                 UpdateRequest(p, n, fields, TRUE)
        \/ /\ calls[p] = NoOp
           /\ \E n \in Names : DeleteRequest(p, n, TRUE)
        \/ UpdateRow(p) \/ UpdateFieldsStep(p) \/ UpdateSchemaStep(p)
        \/ UpdateCommit(p)
        \/ DeleteRow(p) \/ DropTableStep(p) \/ DeleteCommit(p)

SpecConc == InitConc /\ [][NextConc]_vars

\* updates of the declaration of a resource declared with plain x and y,
\* and records created in its table
MetaStart ==
    [catalog |-> [n \in Names |->
                    [id |-> 1, tableName |-> generateTableName(n),
                     fields |-> {FieldRow(Plain("x"), 1, 0),
                                 FieldRow(Plain("y"), 2, 1)}]],
     tables |-> [t \in TableNames |->
                    CreateTriggerSql(
                       CreateTableSql(NoTable, <<Plain("x"), Plain("y")>>).t).t]]

InitMeta ==
    /\ catalog = MetaStart.catalog
    /\ tables = MetaStart.tables
    /\ pc = [p \in Procs |-> "idle"]
    /\ op = [p \in Procs |-> NoOp]
    /\ existing = [p \in Procs |-> NoExisting]
    /\ txCat = [p \in Procs |-> NoEntry]
    /\ todo = [p \in Procs |-> <<>>]
    /\ ret = [p \in Procs |-> NoRet]
    /\ calls = [p \in Procs |-> NoOp]
    /\ before = [p \in Procs |-> NoBefore]
    /\ held = [p \in Procs |-> 0]

NextMeta ==
    \/ \E n \in Names, fields \in MetaDecls : UpdateRequest(1, n, fields, FALSE)
    \/ \E n \in Names, data \in Payloads :
          /\ tables[generateTableName(n)].serial < MaxRows
          /\ DataRequest(1, "createData", n, data, 0)
    \/ UpdateRow(1)
    \/ UpdateFieldsStep(1)
    \/ UpdateSchemaStep(1)
    \/ UpdateCommit(1)
    \/ DataStatement(1, 1, FALSE)

SpecMeta == InitMeta /\ [][NextMeta]_vars

\* the field lists of two clients that define the same name at once
RaceDecls ==
    {<<Plain("x"), Plain("y")>>, <<Plain("x"), Plain("z")>>,
     <<Field("x", "STRING", FALSE, TRUE)>>}

\* each client sends one define; the steps of the two interleave
NextRace ==
    \E p \in Procs :
        \/ /\ calls[p] = NoOp
           /\ \E n \in Names, fields \in RaceDecls :
                 DefineRequest(p, n, fields, TRUE)
        \/ DefineInsert(p)
        \/ CreateTableStep(p)
        \/ CreateIndexStep(p)
        \/ CreateTriggerStep(p)
        \/ DefineCommit(p)

SpecRace == Init /\ [][NextRace]_vars

(***************************************************************************)
(* One client's data operations on a resource that was defined with a      *)
(* required text x, a FLOAT y and an INTEGER z of default 7                *)
(***************************************************************************)
MaxRecords == 2

DataFields ==
    <<Field("x", "STRING", TRUE, FALSE),
      Field("y", "FLOAT", FALSE, FALSE),
      [Field("z", "INTEGER", FALSE, FALSE) EXCEPT !.defaultValue = Num(7)]>>

DataStart ==
    [catalog |-> [n \in Names |->
                    [id |-> 1, tableName |-> generateTableName(n),
                     fields |-> {FieldRow(DataFields[i], i, i - 1)
                                 : i \in DOMAIN DataFields}]],
     tables |-> [t \in TableNames |->
                    CreateTriggerSql(CreateTableSql(NoTable, DataFields).t).t]]

\* request bodies: valid ones (x alone; x with a y of three decimals), x
\* missing, x null, a z of the wrong type with x missing, a partial update
\* of z, and bodies that carry the keys id, created_at and an undeclared w
DataPayloads ==
    {[k \in {"x"} |-> Str(1)],
     [k \in {"x", "y"} |-> IF k = "x" THEN Str(1) ELSE Frac(1005)],
     [k \in {"y"} |-> Num(1)],
     [k \in {"x"} |-> NullV],
     [k \in {"z"} |-> Str(1)],
     [k \in {"z"} |-> Num(3)],
     [k \in {"x", "id"} |-> IF k = "x" THEN Str(1) ELSE Num(2)],
     [k \in {"x", "created_at"} |-> IF k = "x" THEN Str(1) ELSE Num(0)],
     [k \in {"x", "w"} |-> Str(1)]}

\* query options: none, a sort by a declared and by an undeclared name, a
\* filter on an undeclared key
DataOptions ==
    {NoOptions, [NoOptions EXCEPT !.sort = "x"], [NoOptions EXCEPT !.sort = "w"],
     [NoOptions EXCEPT !.filter = [k \in {"w"} |-> Str(1)]]}

InitData ==
    /\ catalog = DataStart.catalog
    /\ tables = DataStart.tables
    /\ pc = [p \in Procs |-> "idle"]
    /\ op = [p \in Procs |-> NoOp]
    /\ existing = [p \in Procs |-> NoExisting]
    /\ txCat = [p \in Procs |-> NoEntry]
    /\ todo = [p \in Procs |-> <<>>]
    /\ ret = [p \in Procs |-> NoRet]
    /\ calls = [p \in Procs |-> NoOp]
    /\ before = [p \in Procs |-> NoBefore]
    /\ held = [p \in Procs |-> 0]

NextData ==
    \/ \E n \in Names, data \in DataPayloads :
          /\ tables[generateTableName(n)].serial < MaxRecords
          /\ Cardinality(tables[generateTableName(n)].rows) < MaxRecords
          /\ DataRequest(1, "createData", n, data, 0)
    \/ \E n \in Names, data \in DataPayloads, id \in 1..MaxRecords :
          DataRequest(1, "updateData", n, data, id)
    \/ \E n \in Names, id \in 1..MaxRecords :
          DataRequest(1, "deleteData", n, <<>>, id)
    \/ \E n \in Names, options \in DataOptions :
          DataRequest(1, "getData", n, options, 0)
    \/ DataStatement(1, 1, TRUE)
    \/ DataCount(1, TRUE)

SpecData == InitData /\ [][NextData]_vars

\* a resource whose fields carry rules: age between 0 and 5, low at least
\* 1, code with the pattern a (no anchors)
RulesFields ==
    <<[Field("age", "INTEGER", FALSE, FALSE)
          EXCEPT !.validation = [NoRules EXCEPT !.min = Num(0), !.max = Num(5)]],
      [Field("low", "FLOAT", FALSE, FALSE)
          EXCEPT !.validation = [NoRules EXCEPT !.min = Num(1)]],
      [Field("code", "STRING", FALSE, FALSE)
          EXCEPT !.validation = [NoRules EXCEPT !.pattern =
                                   [NoPattern EXCEPT !.body = <<"a">>]]]>>

RulesStart ==
    [catalog |-> [n \in Names |->
                    [id |-> 1, tableName |-> generateTableName(n),
                     fields |-> {FieldRow(RulesFields[i], i, i - 1)
                                 : i \in DOMAIN RulesFields}]],
     tables |-> [t \in TableNames |->
                    CreateTriggerSql(CreateTableSql(NoTable, RulesFields).t).t]]

\* request bodies: an age below, at and above each bound, a low below and
\* above its bound, and the texts a, ab and b for code
RulesPayloads ==
    {[k \in {"age"} |-> Num(v)] : v \in {0 - 1, 0, 5, 6}}
      \cup {[k \in {"low"} |-> v] : v \in {Frac(500), Frac(1500)}}
      \cup {[k \in {"code"} |-> Str(v)] : v \in DOMAIN Texts}

InitRules ==
    /\ catalog = RulesStart.catalog
    /\ tables = RulesStart.tables
    /\ pc = [p \in Procs |-> "idle"]
    /\ op = [p \in Procs |-> NoOp]
    /\ existing = [p \in Procs |-> NoExisting]
    /\ txCat = [p \in Procs |-> NoEntry]
    /\ todo = [p \in Procs |-> <<>>]
    /\ ret = [p \in Procs |-> NoRet]
    /\ calls = [p \in Procs |-> NoOp]
    /\ before = [p \in Procs |-> NoBefore]
    /\ held = [p \in Procs |-> 0]

NextRules ==
    \/ \E n \in Names, data \in RulesPayloads :
          /\ tables[generateTableName(n)].serial < MaxRows
          /\ Cardinality(tables[generateTableName(n)].rows) < MaxRows
          /\ DataRequest(1, "createData", n, data, 0)
    \/ \E n \in Names, data \in RulesPayloads, id \in 1..MaxRows :
          DataRequest(1, "updateData", n, data, id)
    \/ DataStatement(1, 1, TRUE)

SpecRules == InitRules /\ [][NextRules]_vars

(***************************************************************************)
(* A client that lists the records of a resource defined with the single   *)
(* field x, while another client creates and deletes records; the writer   *)
(* sends its requests before the first list or while a list is in progress *)
(***************************************************************************)
\* the reader has not listed yet, or is between the steps of a list
Listing == pc[1] # "idle" \/ ret[1] = NoRet

\* the bodies the writer submits: x with one of two texts
QueryPayloads == {[k \in {"x"} |-> v] : v \in {Str(1), Str(2)}}

\* the options the reader submits; order is looked at only with a sort
QueryOptions ==
    {o \in [page : 0..2, limit : 0..2,
            sort : {"", "x"}, order : {"", "desc"},
            filter : {<<>>, [k \in {"x"} |-> Str(1)],
                      [k \in {"x", "id"} |-> IF k = "x" THEN Str(1) ELSE Num(1)]}] :
        o.sort = "" => o.order = ""}

NextQuery ==
    \/ \E n \in Names, data \in QueryPayloads :
          /\ Listing
          /\ tables[generateTableName(n)].serial < MaxRecords
          /\ DataRequest(2, "createData", n, data, 0)
    \/ \E n \in Names, id \in 1..MaxRecords :
          /\ Listing
          /\ DataRequest(2, "deleteData", n, <<>>, id)
    \/ DataStatement(2, MaxRecords, FALSE)
    \/ \E n \in Names, options \in QueryOptions :
          DataRequest(1, "getData", n, options, 0)
    \/ DataStatement(1, MaxRecords, TRUE)
    \/ DataCount(1, TRUE)

SpecQuery == InitConc /\ [][NextQuery]_vars

(***************************************************************************)
(* Properties                                                              *)
(***************************************************************************)
\* the envelope has this kind, resource name and outcome
Ret(r, kind, name, msg) == r.kind = kind /\ r.name = name /\ r.msg = msg

FieldNamesOf(entry) == {f.name : f \in entry.fields}

\* every column of a physical table
AllColumns(t) == SystemColumns \cup ColNames(t)

\* no request is between its first and its last step
Quiescent == \A p \in Procs : pc[p] = "idle"

\* C1 (as claimed): for every valid declaration D (at least one field, no
\* name twice) whose name is not in the catalog, and unless the store could
\* not be reached, define(D) succeeds, get(D.name) at once returns a
\* declaration whose field names are D's, and the table
\* dyn_<lowercased name> exists with exactly those columns plus id,
\* created_at and updated_at.
C1_DefineThenGet ==
    [][\A p \in Procs, n \in Names :
          (/\ op[p].kind = "define" /\ op[p].name = n
           /\ ~HasDuplicateNames(op[p].fields)
           /\ pc'[p] = "idle"
           /\ ret'[p].message # "unavailable") =>
             LET D == op[p].fields
                 tn == generateTableName(n)
             IN  /\ ret'[p].msg = "ok"
                 /\ getResource(n)'.success
                 /\ FieldNamesOf(getResource(n)'.data) = NamesOf(D)
                 /\ getResource(n)'.data.tableName = tn
                 /\ tables'[tn].exists
                 /\ AllColumns(tables'[tn]) = NamesOf(D) \cup SystemColumns
                 /\ Cardinality(AllColumns(tables'[tn])) = Len(D) + 3]_vars

\* C2 (as claimed): an update is all-or-nothing: when it fails, catalog and
\* physical table (columns and rows) are as they were when it started; when
\* it succeeds both hold the new declaration's fields.
C2_UpdateAllOrNothing ==
    [][\A p \in Procs :
          (op[p].kind = "update" /\ pc'[p] = "idle") =>
             LET n == op[p].name
                 tn == generateTableName(n)
             IN  IF ret'[p].msg = "ok"
                 THEN /\ FieldNamesOf(catalog'[n]) = NamesOf(op[p].fields)
                      /\ ColNames(tables'[tn]) = NamesOf(op[p].fields)
                 ELSE /\ catalog' = before[p].catalog
                      /\ tables' = before[p].tables]_vars

\* C3: when table creation fails at any of its statements, the define
\* returns a failure and the catalog has no entry (and so no fields) for
\* the name.
C3_FailedCreateLeavesNoEntry ==
    [][\A p \in Procs :
          (pc[p] \in {"c_table", "c_index", "c_trigger"} /\ pc'[p] = "idle") =>
             /\ Ret(ret'[p], "define", op[p].name, "Failed to create resource")
             /\ catalog'[op[p].name] = NoEntry]_vars

C3_Witness ==
    \E p \in Procs, n \in Names :
        /\ Ret(ret[p], "define", n, "Failed to create resource")
        /\ tables[generateTableName(n)].exists
        /\ tables[generateTableName(n)].idx # {}
        /\ ~tables[generateTableName(n)].trigger
        /\ catalog[n] = NoEntry

\* C4 (as claimed): whenever no operation is in flight, every catalog
\* entry has an existing physical table of its tableName.
C4_EntryHasTable ==
    Quiescent =>
        \A n \in Names :
            catalog[n].id # 0 => tables[catalog[n].tableName].exists

\* C5 (as claimed): after every define or update that returns success,
\* the catalog's field names of the resource are the user columns of its
\* physical table.
C5_FieldsEqualColumns ==
    [][\A p \in Procs, n \in Names :
          (/\ op[p].kind \in {"define", "update"} /\ op[p].name = n
           /\ pc'[p] = "idle" /\ ret'[p].msg = "ok") =>
             /\ tables'[catalog'[n].tableName].exists
             /\ FieldNamesOf(catalog'[n])
                   = ColNames(tables'[catalog'[n].tableName])]_vars

\* C6: a successful update leaves the table without the columns of the
\* fields it removed and with the columns of the fields it added, and every
\* row that existed before is still there, with the same id and the same
\* value in every column of a field that the old and the new declaration
\* share.
C6_UpdateKeepsRows ==
    [][\A p \in Procs :
          (pc[p] = "u_commit" /\ ret'[p].msg = "ok") =>
             LET tn == existing[p].tableName
                 F == NamesOf(existing[p].fields)
                 D == NamesOf(op[p].fields)
                 old == before[p].tables[tn]
             IN  /\ \A X \in F \ D : X \notin ColNames(tables'[tn])
                 /\ \A Y \in D \ F : Y \in ColNames(tables'[tn])
                 /\ \A r \in old.rows :
                       \E r2 \in tables'[tn].rows :
                          /\ r2.id = r.id
                          /\ \A c \in (F \cap D) \cap DOMAIN r.vals :
                                /\ c \in DOMAIN r2.vals
                                /\ r2.vals[c] = r.vals[c]]_vars

C6_Witness ==
    \E p \in Procs :
        /\ pc[p] = "u_commit"
        /\ NamesOf(existing[p].fields) = {"x", "y"}
        /\ NamesOf(op[p].fields) = {"y", "z"}
        /\ ColNames(tables[existing[p].tableName]) = {"y", "z"}
        /\ \E r \in before[p].tables[existing[p].tableName].rows :
              /\ r.vals["y"] # NullV
              /\ r \notin tables[existing[p].tableName].rows

\* a step in which client p sends a request of one of the kinds for name n
\* and gets the answer at once
Answered(p, kinds, n) ==
    /\ pc[p] = "idle" /\ pc'[p] = "idle"
    /\ ret'[p] # ret[p]
    /\ ret'[p].kind \in kinds /\ ret'[p].name = n

\* C7: a successful delete leaves no catalog entry, no table and no
\* records; from then on getResource and the five data operations, when
\* their catalog lookup reaches the store, answer 'Resource not found', and
\* nothing but a define brings the entry or the table back.
C7_DeletedStaysGone ==
    [][/\ \A p \in Procs :
            (pc[p] = "d_commit" /\ ret'[p].msg = "ok") =>
               /\ catalog'[op[p].name] = NoEntry
               /\ tables'[generateTableName(op[p].name)] = NoTable
       /\ \A p \in Procs, n \in Names :
            catalog[n].id = 0 =>
               /\ (Answered(p, DataKinds \cup {"get"}, n)
                      /\ ret'[p].message # "unavailable")
                     => ret'[p].msg = "Resource not found"
               /\ pc'[p] = "statement" => (pc[p] = "statement" \/ op'[p].name # n)
       /\ \A n \in Names :
            /\ (catalog[n].id = 0 /\ catalog'[n].id # 0) =>
                  \E p \in Procs : pc[p] = "c_commit" /\ op[p].name = n
            /\ (~tables[generateTableName(n)].exists
                  /\ tables'[generateTableName(n)].exists) =>
                  \E p \in Procs : pc[p] = "c_table" /\ op[p].kind = "define"
      ]_vars

C7_Witness ==
    \E p \in Procs, n \in Names :
        /\ Ret(ret[p], "delete", n, "ok")
        /\ catalog[n] = NoEntry
        /\ tables[generateTableName(n)] = NoTable

\* the outcome of one request served alone, without store failure, on the
\* stores st: the statements of the update are applied one by one until one
\* is refused
RECURSIVE ExecAll(_, _, _)
ExecAll(t, tableName, stmts) ==
    IF stmts = <<>> THEN Done(t)
    ELSE LET r == Exec(t, tableName, Head(stmts))
         IN  IF r.ok THEN ExecAll(r.t, tableName, Tail(stmts)) ELSE r

Alone(st, n, call) ==
    LET entry == st.catalog[n]
        tn == generateTableName(n)
    IN  IF entry.id = 0 \/ call.kind = "none" THEN st
        ELSE IF call.kind = "delete"
        THEN [catalog |-> [st.catalog EXCEPT ![n] = NoEntry],
              tables |-> [st.tables EXCEPT ![tn] = DropTableSql(@).t]]
        ELSE LET e == [id |-> entry.id, tableName |-> entry.tableName,
                       fields |-> CHOOSE fs \in OrderedFields(entry.fields) : TRUE]
                 c == updateFields(entry, e, call.fields)
                 t == ExecAll(st.tables[tn], tn, updateTableSchema(e, call.fields))
             IN  [catalog |-> IF c.ok /\ t.ok
                              THEN [st.catalog EXCEPT ![n] = c.t] ELSE st.catalog,
                  tables |-> IF c.ok
                             THEN [st.tables EXCEPT ![tn] = t.t] ELSE st.tables]

\* what a client sees of a resource: whether it is declared, its field
\* names and the columns of its table
Shape(st, n) ==
    [declared |-> st.catalog[n].id # 0,
     fields |-> FieldNamesOf(st.catalog[n]),
     table |-> st.tables[generateTableName(n)].exists,
     columns |-> ColNames(st.tables[generateTableName(n)])]

SerialShapes(n) ==
    {Shape(Alone(Alone(ConcStart, n, calls[1]), n, calls[2]), n),
     Shape(Alone(Alone(ConcStart, n, calls[2]), n, calls[1]), n)}

\* C8 (as claimed): when two concurrent update (or update and delete)
\* requests on one name have both returned, neither having found the store
\* unreachable, the catalog's field names and the table's columns are those
\* of the two requests served one after the other in some order, and the
\* catalog's field names are the table's columns.
C8_Serializable ==
    \A n \in Names :
        (/\ Quiescent
         /\ \A p \in Procs : calls[p].kind # "none" /\ calls[p].name = n
         /\ \A p \in Procs : ret[p].message # "unavailable") =>
            /\ Shape([catalog |-> catalog, tables |-> tables], n) \in SerialShapes(n)
            /\ catalog[n].id # 0 =>
                  FieldNamesOf(catalog[n]) = ColNames(tables[catalog[n].tableName])

\* C9: a define of a name that the catalog has (with a field list the
\* request schema accepts) returns 'Resource already exists' and leaves
\* the catalog entry, its fields, the table's columns and its rows as they
\* were.
C9_DefineExistingRefused ==
    [][\A p \in Procs, n \in Names :
          (/\ catalog[n].id # 0
           /\ pc[p] = "idle"
           /\ (pc'[p] = "c_create" \/ ret'[p].kind = "define")) =>
             \/ /\ pc'[p] = "idle"
                /\ Ret(ret'[p], "define", n, "Resource already exists")
                /\ catalog' = catalog
                /\ tables' = tables
             \/ \A fields \in Decls :
                   ~(Len(fields) >= 1 /\ DefineRequest(p, n, fields, FALSE))]_vars

C9_Witness ==
    \E p \in Procs, n \in Names :
        /\ Ret(ret[p], "define", n, "Resource already exists")
        /\ catalog[n].id # 0
        /\ tables[catalog[n].tableName].rows # {}

\* C10: every catalog entry always has at least one field; a define and an
\* update with an empty field list are rejected and leave catalog and
\* physical schema as they were.
C10_AtLeastOneField ==
    [][/\ \A n \in Names : catalog'[n].id # 0 => catalog'[n].fields # {}
       /\ \A p \in Procs, n \in Names :
            (/\ pc[p] = "idle"
             /\ pc'[p] # "statement"
             /\ IF pc'[p] = "idle"
                THEN ret'[p].kind \in {"define", "update"}
                ELSE op'[p].fields = <<>>
             /\ (\/ DefineRequest(p, n, <<>>, FALSE)
                 \/ UpdateRequest(p, n, <<>>, FALSE))) =>
               /\ pc'[p] = "idle"
               /\ ret'[p].msg = "Validation error"
               /\ catalog' = catalog
               /\ tables' = tables]_vars

C10_Witness ==
    \E p \in Procs, n \in Names :
        /\ Ret(ret[p], "update", n, "Validation error")
        /\ catalog[n].id # 0
        /\ catalog[n].fields # {}


\* C11 (as claimed): no catalog entry has two fields of one name, and a
\* define or an update whose field list repeats a name either fails and
\* leaves the catalog and the physical table as they were when it started,
\* or ends with exactly one field and one column of that name (the store
\* being reachable throughout).
C11_RepeatedNameAllOrOne ==
    [][/\ \A n \in Names : \A f, g \in catalog'[n].fields :
            f.name = g.name => f = g
       /\ \A p \in Procs :
            (/\ op[p].kind \in {"define", "update"}
             /\ HasDuplicateNames(op[p].fields)
             /\ pc'[p] = "idle"
             /\ ret'[p].message # "unavailable") =>
               LET n == op[p].name
                   tn == generateTableName(n)
               IN  IF ret'[p].msg = "ok"
                   THEN \A c \in NamesOf(op[p].fields) :
                          /\ Cardinality({f \in catalog'[n].fields : f.name = c}) = 1
                          /\ Cardinality({d \in tables'[tn].cols : d.name = c}) = 1
                   ELSE IF op[p].kind = "update"
                   THEN /\ catalog' = before[p].catalog
                        /\ tables' = before[p].tables
                   ELSE /\ pc[p] = "c_create"
                        /\ catalog' = catalog
                        /\ tables' = tables]_vars

\* C12 (as claimed): whenever no request is in progress and the catalog has
\* no entry for a name, no physical table dyn_<lowercased name> exists,
\* also after a define failed part-way through createTable and after a
\* delete.
C12_NoEntryNoTable ==
    Quiescent =>
        \A n \in Names :
            catalog[n].id = 0 => ~tables[generateTableName(n)].exists

\* the declared field names of a resource
Declared(n) == FieldNamesOf(catalog[n])

\* C13 (as claimed): a successful createData adds exactly one record whose
\* id is new to the table, whose supplied fields hold the supplied values
\* and whose omitted fields hold the column default or NULL; it returns that
\* row and leaves every other record as it was.
C13_CreateAddsTheRecord ==
    [][\A p \in Procs, n \in Names :
          (/\ pc[p] = "statement"
           /\ op[p].kind = "createData"
           /\ op[p].name = n
           /\ ret'[p].msg = "ok") =>
             LET tn == generateTableName(n)
                 data == op[p].data
             IN  /\ Len(ret'[p].data.items) = 1
                 /\ \E row \in tables'[tn].rows :
                      /\ ret'[p].data.items[1] = row
                      /\ row.id \notin {r.id : r \in tables[tn].rows}
                      /\ tables'[tn].rows = tables[tn].rows \cup {row}
                      /\ \A c \in tables[tn].cols :
                           IF c.name \in DOMAIN data
                           THEN row.vals[c.name] = data[c.name]
                           ELSE row.vals[c.name] =
                                  (IF c.dflt = Undefined THEN NullV ELSE c.dflt)]_vars

\* C14: whenever createData or updateData returns a validation failure, the
\* call has sent no statement to the table (it returns from its first step,
\* and a payload that fails validation never reaches the statement) and the
\* table's rows are as before the call.
C14_ValidationFailureSendsNothing ==
    [][\A p \in Procs, n \in Names :
          /\ (/\ ret'[p].kind \in {"createData", "updateData"}
              /\ ret'[p].msg = "Validation error") =>
                /\ pc[p] = "idle"
                /\ tables' = tables
          /\ (/\ pc'[p] = "statement"
              /\ op'[p].kind \in {"createData", "updateData"}
              /\ op'[p].name = n) =>
                \A f \in catalog[n].fields :
                    FieldError(op'[p].data, f, op'[p].kind = "updateData") = ""]_vars

C14_Witness ==
    \E p \in Procs, n \in Names :
        /\ Ret(ret[p], "updateData", n, "Validation error")
        /\ tables[generateTableName(n)].rows # {}

\* the required fields of a declaration that a payload leaves out or null
MissingRequired(n, data) ==
    {f \in catalog[n].fields :
        f.isRequired /\ Lookup(data, f.name) \in {Undefined, NullV}}

\* the declared fields a payload supplies with a value that is not of the
\* field's type
WrongType(n, data) ==
    {f \in catalog[n].fields :
        /\ Lookup(data, f.name) \notin {Undefined, NullV}
        /\ ~validateFieldType(Lookup(data, f.name), f.type)}

C16_IdAndCreatedAtServerControlled ==
    [][\A p \in Procs, n \in Names :
          (/\ pc[p] = "statement"
           /\ op[p].name = n
           /\ ret'[p].message # "unavailable") =>
             LET tn == generateTableName(n)
                 old == tables[tn].rows
                 new == tables'[tn].rows
             IN  /\ op[p].kind = "createData" =>
                      \A r \in new \ old :
                          /\ r.id = tables[tn].serial + 1
                          /\ r.created_at \in Clock(tables[tn], 1)
                 /\ op[p].kind = "updateData" =>
                      \A r \in new \ old :
                          \E q \in old :
                              /\ q.id = r.id
                              /\ q.created_at = r.created_at
                              /\ \A c \in DOMAIN q.vals :
                                    c \notin DOMAIN op[p].data =>
                                        q.vals[c] = r.vals[c]]_vars

\* C17 (as claimed): every column identifier a data operation places into
\* its statement (insert columns, SET list, filter keys, sort column) is a
\* declared field name of the resource, or id, created_at or updated_at.
C17_StatementColumnsAllowed ==
    \A p \in Procs :
        pc[p] = "statement" =>
            StatementColumns(op[p]) \subseteq Declared(op[p].name) \cup SystemColumns

\* the item lists getData can return for page k under the options o
PageItems(t, o, k) == {r.items : r \in SelectSql(t, [o EXCEPT !.page = k])}

\* the places <<page, index>> of a series of pages at which a record stands
Places(c, id) ==
    {ki \in UNION {{<<k, i>> : i \in DOMAIN c[k]} : k \in DOMAIN c} :
        c[ki[1]][ki[2]].id = id}

\* C18 (as claimed): for a table holding N records (matching the filter) and
\* a limit L >= 1, totalPages is ceil(N/L), and for every series of answers
\* to pages 1..totalPages under the same limit, sort and filter, with no
\* write in between, each of the N records stands in exactly one place of
\* the series, also when records share their sort-key value.
C18_PaginationLaw ==
    \A n \in Names, o \in QueryOptions :
        LET t == tables[generateTableName(n)]
            hits == {r \in t.rows : Matches(r, o.filter)}
            N == Cardinality(hits)
            pages == Pagination(o, CountSql(t, o.filter)).totalPages
        IN  (t.exists /\ o.limit >= 1) =>
              /\ pages * o.limit >= N
              /\ pages * o.limit < N + o.limit
              /\ \A c \in [1..pages -> UNION {PageItems(t, o, k) : k \in 1..pages}] :
                    (\A k \in 1..pages : c[k] \in PageItems(t, o, k)) =>
                        \A r \in hits : Cardinality(Places(c, r.id)) = 1

\* the record has, for every key of the filter, the filter's value
EqualsOnEveryKey(r, filter) == \A k \in DOMAIN filter : Cell(r, k) = filter[k]

\* C19: every record getData returns equals the filter's value on every
\* filter key; pagination.total is the number of records of the table that
\* do, whatever page and limit are, counted by the second query (which runs
\* after the first and may see writes the first did not); totalPages is
\* ceil(total / limit).
C19_FilterAndTotal ==
    [][\A p \in Procs :
          (pc[p] = "count" /\ ret'[p].msg = "ok") =>
             LET o == op[p].data
                 t == tables[generateTableName(op[p].name)]
                 d == ret'[p].data
                 total == Cardinality({r \in t.rows : EqualsOnEveryKey(r, o.filter)})
             IN  /\ \A i \in DOMAIN d.items : EqualsOnEveryKey(d.items[i], o.filter)
                 /\ d.pagination.total = total
                 /\ d.pagination.totalPages * d.pagination.limit >= total
                 /\ d.pagination.totalPages * d.pagination.limit
                        < total + d.pagination.limit]_vars

\* a list answered with the one record whose x is the filter's text, and a
\* total of 1, from a table that holds an older record with another text
C19_Witness ==
    \E p \in Procs, n \in Names :
        /\ Ret(ret[p], "getData", n, "ok")
        /\ Len(ret[p].data.items) = 1
        /\ ret[p].data.pagination.total = 1
        /\ ret[p].data.items[1].id = 2
        /\ ret[p].data.items[1] \in tables[generateTableName(n)].rows
        /\ \E r \in tables[generateTableName(n)].rows :
               r.id = 1 /\ r.vals["x"] = Str(2)

\* a list whose two queries saw different tables: more items than total
TornList ==
    \E p \in Procs :
        /\ ret[p].kind = "getData"
        /\ Len(ret[p].data.items) > ret[p].data.pagination.total

\* record a does not come after record b in the order of the list
NotAfter(a, b, o) ==
    LET col == IF o.sort = "" THEN "created_at" ELSE o.sort
    IN  IF o.sort = "" \/ o.order = "desc"
        THEN Rank(Cell(a, col)) >= Rank(Cell(b, col))
        ELSE Rank(Cell(a, col)) <= Rank(Cell(b, col))

\* the smaller of two numbers
Min(a, b) == IF a < b THEN a ELSE b

\* C20: the records getData selects are the slice, starting at offset
\* (page - 1) * limit and at most limit long, of the matching records in
\* sorted order: limit is 50 and page is 1 when absent, the order is
\* created_at descending without a sort and ascending on the sort column
\* when no order is given; the reply carries the selected records and
\* echoes the page and limit used.
C20_SliceOfSortedRecords ==
    [][\A p \in Procs :
          /\ (/\ pc[p] = "statement"
              /\ op[p].kind = "getData"
              /\ pc'[p] = "count") =>
                LET o == op[p].data
                    t == tables[generateTableName(op[p].name)]
                    limit == IF o.limit = 0 THEN 50 ELSE o.limit
                    offset == ((IF o.page = 0 THEN 1 ELSE o.page) - 1) * limit
                    hits == {r \in t.rows : EqualsOnEveryKey(r, o.filter)}
                    N == Cardinality(hits)
                    items == todo'[p]
                    shown == Range(items)
                IN  /\ Len(items) = Min(limit, IF N < offset THEN 0 ELSE N - offset)
                    /\ Cardinality(shown) = Len(items)
                    /\ shown \subseteq hits
                    /\ \A i, j \in DOMAIN items :
                          i < j => NotAfter(items[i], items[j], o)
                    /\ \E B \in SUBSET (hits \ shown) :
                          /\ Cardinality(B) = Min(offset, N)
                          /\ \A b \in B, r \in shown : NotAfter(b, r, o)
                          /\ \A a \in (hits \ shown) \ B, r \in shown :
                                NotAfter(r, a, o)
          /\ (pc[p] = "count" /\ ret'[p].msg = "ok") =>
                /\ ret'[p].data.items = todo[p]
                /\ ret'[p].data.pagination.page =
                       (IF op[p].data.page = 0 THEN 1 ELSE op[p].data.page)
                /\ ret'[p].data.pagination.limit =
                       (IF op[p].data.limit = 0 THEN 50 ELSE op[p].data.limit)]_vars

\* the second page of a list of limit 1 over two records
C20_Witness ==
    \E p \in Procs, n \in Names :
        /\ Ret(ret[p], "getData", n, "ok")
        /\ ret[p].data.pagination.page = 2
        /\ ret[p].data.pagination.limit = 1
        /\ ret[p].data.pagination.total = 2
        /\ Len(ret[p].data.items) = 1

\* C21: updateData on a record that exists changes, in the record of that
\* id alone, only the columns the payload names and updated_at, and returns
\* the updated row; for an id that no record has, a statement the store
\* accepts returns 'Data not found'; an update that does not return success
\* changes no row.
C21_UpdateTouchesOneRecord ==
    [][\A p \in Procs, n \in Names :
          (/\ pc[p] = "statement"
           /\ op[p].kind = "updateData"
           /\ op[p].name = n) =>
             LET old == tables[generateTableName(n)].rows
                 new == tables'[generateTableName(n)].rows
                 data == op[p].data
                 hit == {q \in old : q.id = op[p].id}
             IN  /\ ret'[p].msg = "ok" =>
                      \E q \in hit, r \in new :
                          /\ ret'[p].data.items = <<r>>
                          /\ new = (old \ {q}) \cup {r}
                          /\ "id" \notin DOMAIN data => r.id = q.id
                          /\ "created_at" \notin DOMAIN data =>
                                r.created_at = q.created_at
                          /\ \A c \in DOMAIN q.vals :
                                c \notin DOMAIN data => r.vals[c] = q.vals[c]
                 /\ ret'[p].msg # "ok" => new = old
                 /\ (hit = {} /\ ret'[p].message = "") =>
                      ret'[p].msg = "Data not found"
                 /\ ret'[p].msg = "Data not found" => hit = {}]_vars

\* an update changed z in one of two records and left the other's z
C21_Witness ==
    \E p \in Procs, n \in Names :
        /\ Ret(ret[p], "updateData", n, "ok")
        /\ Len(ret[p].data.items) = 1
        /\ ret[p].data.items[1].vals["z"] = Num(3)
        /\ \E r \in tables[generateTableName(n)].rows :
               r.id # ret[p].data.items[1].id /\ r.vals["z"] = Num(7)

\* C22: every data operation works on the declaration the catalog holds
\* when the operation starts: with no entry for the name (never defined, or
\* deleted) it returns 'Resource not found'; it goes on to its statement
\* only on the entry's table and with a payload that every field of the
\* entry as it is now accepts (fields added by an update included); and,
\* the catalog being reachable, it returns from its first step only with a
\* validation error for a field of the entry as it is now.
C22_DeclarationResolvedPerCall ==
    [][\A p \in Procs, n \in Names :
          /\ (/\ pc[p] = "idle"
              /\ pc'[p] = "statement"
              /\ op'[p].name = n) =>
                /\ catalog[n].id # 0
                /\ existing'[p].tableName = catalog[n].tableName
                /\ op'[p].kind \in {"createData", "updateData"} =>
                      \A f \in catalog[n].fields :
                          FieldError(op'[p].data, f,
                                     op'[p].kind = "updateData") = ""
          /\ (/\ pc[p] = "idle"
              /\ pc'[p] = "idle"
              /\ ret'[p].kind \in DataKinds
              /\ ret'[p].name = n
              /\ ret'[p].message # "unavailable") =>
                IF catalog[n].id = 0
                THEN ret'[p].msg = "Resource not found"
                ELSE /\ ret'[p].msg = "Validation error"
                     /\ \E f \in catalog[n].fields :
                          ret'[p].message \in
                              {FieldMessage(f.name, "is required"),
                               FieldMessage(f.name, "type")}]_vars

\* a createData was rejected for its value of x, on a declaration that a
\* successful update has changed (x stands before y but was stored after
\* it, which no define produces)
C22_Witness ==
    \E p \in Procs, n \in Names :
        /\ Ret(ret[p], "createData", n, "Validation error")
        /\ ret[p].message = FieldMessage("x", "type")
        /\ \E f, g \in catalog[n].fields :
              /\ f.name = "x" /\ g.name = "y"
              /\ f.order < g.order
              /\ f.id > g.id

RulesOf(n, name) == (CHOOSE f \in catalog[n].fields : f.name = name).validation

\* min <= v <= max, an absent bound allowing everything
WithinBounds(value, rules) ==
    /\ rules.min # Undefined => Thousandths(rules.min) <= Thousandths(value)
    /\ rules.max # Undefined => Thousandths(value) <= Thousandths(rules.max)

\* C24: for a field with a min and/or max rule, createData and updateData
\* accept a supplied number v exactly when min <= v <= max, bounds
\* included, and otherwise return a validation error naming the field.
C24_BoundsInclusive ==
    [][\A p \in Procs, n \in Names, k \in {"age", "low"} :
          \A data \in {d \in RulesPayloads : DOMAIN d = {k}} :
             \A kind \in {"createData", "updateData"}, id \in 1..MaxRows :
                DataRequest(p, kind, n, data, id) =>
                   IF WithinBounds(data[k], RulesOf(n, k))
                   THEN pc'[p] = "statement"
                   ELSE /\ pc'[p] = "idle"
                        /\ ret'[p].msg = "Validation error"
                        /\ ret'[p].message \in
                              {FieldMessage(k, "must be at least "
                                     \o ToString(RulesOf(n, k).min.v)),
                               FieldMessage(k, "must be at most "
                                     \o ToString(RulesOf(n, k).max.v))}]_vars

\* an age of 0 is stored, and an update of it to -1 has just been rejected
C24_Witness ==
    \E p \in Procs, n \in Names :
        /\ Ret(ret[p], "updateData", n, "Validation error")
        /\ ret[p].message = "Field 'age' must be at least 0"
        /\ \E q \in tables[generateTableName(n)].rows : q.vals["age"] = Num(0)

\* the whole value is the text of the pattern
FullMatch(pattern, value) == Chars(value) = pattern.body

\* C27: a value supplied for a field with a pattern rule is accepted only
\* if the whole value matches the pattern; a value of which only a proper
\* part matches is rejected with a validation error.
C27_PatternFullMatch ==
    [][\A p \in Procs, n \in Names :
          \A data \in {d \in RulesPayloads : DOMAIN d = {"code"}} :
             \A kind \in {"createData", "updateData"}, id \in 1..MaxRows :
                DataRequest(p, kind, n, data, id) =>
                   IF FullMatch(RulesOf(n, "code").pattern, data["code"])
                   THEN pc'[p] = "statement"
                   ELSE /\ pc'[p] = "idle"
                        /\ ret'[p].msg = "Validation error"
                        /\ ret'[p].message
                              = FieldMessage("code", "format is invalid")]_vars

\* the column and the unique index of field f are what declaration f asks
ColumnMatches(t, tableName, f) ==
    /\ \E c \in t.cols :
          /\ c.name = f.name
          /\ c.type = SQL_TYPE_MAPPING(f.type)
          /\ c.notNull = f.isRequired
    /\ f.isUnique <=> \E i \in t.idx : i.name = IndexName(tableName, f.name)

\* C25: a field kept by an update with another type, required or unique
\* attribute is altered in place: the statement that alters its column is
\* carried out whenever the store can be reached, and a successful update
\* leaves the column and its unique index matching the new declaration.
C25_AlteredInPlace ==
    [][\A p \in Procs :
          /\ (pc[p] = "u_schema" /\ Head(todo[p]).k = "alter"
                /\ ret'[p].message # "unavailable") =>
                /\ pc'[p] \in {"u_schema", "u_commit"}
                /\ \E c \in tables'[existing[p].tableName].cols :
                      /\ c.name = Head(todo[p]).f.name
                      /\ c.type = SQL_TYPE_MAPPING(Head(todo[p]).f.type)
                      /\ c.notNull = Head(todo[p]).f.isRequired
          /\ (pc[p] = "u_commit" /\ ret'[p].msg = "ok") =>
                \A i \in DOMAIN op[p].fields :
                   op[p].fields[i].name \in NamesOf(existing[p].fields) =>
                      ColumnMatches(tables'[existing[p].tableName],
                                    existing[p].tableName, op[p].fields[i])]_vars

\* the names of the fields that request p keeps with the type, required
\* and unique attributes they have
KeptAsIs(p) ==
    {c \in NamesOf(existing[p].fields) \cap NamesOf(op[p].fields) :
        \A i \in DOMAIN op[p].fields :
           op[p].fields[i].name = c =>
              LET e == MapGet(existing[p].fields, c)
              IN  /\ e.type = op[p].fields[i].type
                  /\ e.isRequired = op[p].fields[i].isRequired
                  /\ e.isUnique = op[p].fields[i].isUnique}

\* what table t holds of column c: its definition, its index, its values
ColumnOf(t, tableName, c) ==
    [cols |-> {d \in t.cols : d.name = c},
     idx  |-> {i \in t.idx : i.name = IndexName(tableName, c)},
     vals |-> {<<r.id, Lookup(r.vals, c)>> : r \in t.rows}]

\* C26: for a field kept with the same type, required and unique
\* attributes, updateTableSchema issues no statement, whatever changed in
\* its order, default value or rules, and no step of the update changes
\* the column's definition, its index or the values stored in it.
C26_UntouchedColumns ==
    [][\A p \in Procs :
          /\ (pc[p] = "u_fields" /\ pc'[p] \in {"u_schema", "u_commit"}) =>
                \A i \in DOMAIN todo'[p] : todo'[p][i].f.name \notin KeptAsIs(p)
          /\ pc[p] \in {"u_update", "u_fields", "u_schema", "u_commit"} =>
                \A c \in KeptAsIs(p) :
                   ColumnOf(tables'[existing[p].tableName],
                            existing[p].tableName, c)
                     = ColumnOf(tables[existing[p].tableName],
                                existing[p].tableName, c)]_vars

\* an update gave x a default value and a rule and moved nothing in the
\* table: the column has no default and the record keeps its value
C26_Witness ==
    \E p \in Procs, n \in Names :
        /\ Ret(ret[p], "update", n, "ok")
        /\ \E f \in catalog[n].fields :
              /\ f.name = "x"
              /\ f.defaultValue # NullV
              /\ f.validation # NoRules
        /\ \E c \in tables[generateTableName(n)].cols :
              c.name = "x" /\ c.dflt = Undefined
        /\ \E r \in tables[generateTableName(n)].rows : Lookup(r.vals, "x") = Str(1)

\* the clients of the pool that are checked out
CheckedOut == held[1] + held[2]

\* C28: every client an operation takes from the pool is released before
\* the operation returns, on success and on every failure; when no
\* operation is in progress no client is checked out; and no operation
\* asks the pool for a client while it holds one.
C28_ClientsReleased ==
    [][/\ \A p \in Procs :
             /\ pc'[p] = "idle" => held'[p] = 0
             /\ held'[p] > held[p] => held[p] = 0
             /\ held'[p] \in {0, 1}
       /\ (\A p \in Procs : pc'[p] = "idle") => CheckedOut' = 0]_vars

\* a failed schema update has returned after one of its statements was
\* carried out and the next was refused, and no client is checked out
C28_Witness ==
    \E p \in Procs, n \in Names :
        /\ Ret(ret[p], "update", n, "Failed to update resource")
        /\ ret[p].message = "refused"
        /\ "x" \notin ColNames(tables[generateTableName(n)])
        /\ \E f \in catalog[n].fields : f.name = "x"
        /\ held[p] = 0
        /\ CheckedOut = 0

\* C29: of two define calls for one name that run at once, at most one
\* returns success; the catalog then holds the entry of that call and the
\* table has the columns of its declaration, whatever the other call did
\* before or does afterwards.
C29_OneDefineWins ==
    \A p \in Procs, n \in Names :
        Ret(ret[p], "define", n, "ok") =>
            /\ \A q \in Procs \ {p} : ret[q].msg # "ok"
            /\ catalog[n].id # 0
            /\ FieldNamesOf(catalog[n]) = NamesOf(calls[p].fields)
            /\ tables[generateTableName(n)].exists
            /\ ColNames(tables[generateTableName(n)]) = NamesOf(calls[p].fields)

\* both calls passed the existence check; one succeeded and the store
\* refused the other, whose declaration has another field
C29_Witness ==
    \E p, q \in Procs, n \in Names :
        /\ Ret(ret[p], "define", n, "ok")
        /\ Ret(ret[q], "define", n, "Failed to create resource")
        /\ ret[q].message = "refused"
        /\ NamesOf(calls[q].fields) # NamesOf(calls[p].fields)
        /\ ColNames(tables[generateTableName(n)]) = NamesOf(calls[p].fields)

\* C30: the catalog and the table agree on defaults: for every field that
\* a successful update added, the catalog row has a default value exactly
\* when the column was created with a DEFAULT clause, also when the
\* default is 0.
C30_DefaultsAgree ==
    [][\A p \in Procs :
          (pc[p] = "u_commit" /\ ret'[p].msg = "ok") =>
             \A i \in DOMAIN op[p].fields :
                op[p].fields[i].name \notin NamesOf(existing[p].fields) =>
                   \E f \in catalog'[op[p].name].fields,
                      c \in tables'[existing[p].tableName].cols :
                         /\ f.name = op[p].fields[i].name
                         /\ c.name = op[p].fields[i].name
                         /\ f.defaultValue # NullV <=> c.dflt # Undefined]_vars

====
